---- MODULE Spec2Model ----
(***************************************************************************)
(* Model of the analytics core of the cricket simulation dashboard         *)
(* (backend analytics.py): compute_game_features and                       *)
(* cluster_simulation_runs over the Game and Simulation tables.            *)
(*                                                                         *)
(* Numbers.  Scores are integers.  A float the code produces by a division *)
(* is kept as the exact rational <<numerator, denominator>> in lowest      *)
(* terms, denominator > 0.  A standardized value (x - mean) / std is kept  *)
(* as [num, var] meaning num / sqrt(var), with var > 0.                    *)
(***************************************************************************)
EXTENDS Integers, Sequences, FiniteSets, TLC

\* ---- bounds of the model ------------------------------------------------
MaxRun == 3
MaxScore == 1
MaxK == 2
MaxSeed == 1
MaxThread == 2
MaxThreadRun == 2
MaxLloydRun == 4
MaxLloydScore == 3
MaxDupRun == 2
MaxSubmit == 2
MaxSelect == 2
MaxData == 2
MaxBinScore == 3

\* ---- values ---------------------------------------------------------------
\* What a call hands back: a value (None, a list, a dict, labels) or a raised error.
None == [tag |-> "None"]
ValueError == [tag |-> "raise", v |-> "ValueError"]
Return(tag, v) == [tag |-> tag, v |-> v]

Runs == 1..MaxRun
Scores == 0..MaxScore
Ks == 0..MaxK
Seeds == 0..MaxSeed
Threads == 1..MaxThread

\* The Game table: Game.id -> home_team, away_team.
GameTable ==
  (1 :> [id |-> 1, home_team |-> "A", away_team |-> "B"]) @@
  (2 :> [id |-> 2, home_team |-> "B", away_team |-> "C"])

GameIds == DOMAIN GameTable

Row(g, t, r, s) == [game_id |-> g, team |-> t, simulation_run |-> r, results |-> s]

\* Rows of game 1 for its two teams: each (team, run) has no row or one row.
CoreKeys == {"A", "B"} \X Runs

CoreStores ==
  { { Row(1, key[1], key[2], f[key]) : key \in {x \in CoreKeys : f[x] >= 0} } :
      f \in [CoreKeys -> Scores \cup {-1}] }

\* Rows of the other game, and a row of a team that does not play game 1.
OtherGameRows == { Row(2, "B", 1, 1), Row(2, "C", 1, 0) }

ThirdTeamRows == { Row(1, "C", 1, 1) }

\* Contents of the Simulation table: simulation_run is unique per team
\* within a game.
StoreDomain ==
  { core \cup other \cup third :
      core \in CoreStores, other \in {{}, OtherGameRows}, third \in {{}, ThirdTeamRows} }

\* games, sims: the two tables.  seed42: the stream random_state=42 selects.
\* last: the call served last, as its caller sees it.
\* workers: the threads that serve calls.  call[t]: the call thread t is
\* executing and its position in it.  frame[f]: the local variables of the
\* function frame f.
\* kmeans: the KMeans estimator while it fits (its centres, labels and
\* iteration count).
VARIABLES games, sims, seed42, last, workers, call, frame, kmeans

\* The React frontend.  App, Login, GameSelector, AnalyticsDashboard,
\* EnhancedChart: the state (useState) of the component of that name and what
\* it has rendered or called.  fetches: the GET requests App has sent, in the
\* order of sending, each pending, answered or failed.
VARIABLES App, Login, GameSelector, AnalyticsDashboard, EnhancedChart, fetches

backend == <<games, sims, seed42, last, workers, call, frame, kmeans>>

frontend == <<App, Login, GameSelector, AnalyticsDashboard, EnhancedChart, fetches>>

vars == <<backend, frontend>>

\* ---- arithmetic helpers ---------------------------------------------------
Abs(x) == IF x < 0 THEN -x ELSE x

RECURSIVE GCD(_, _)
GCD(a, b) == IF b = 0 THEN a ELSE GCD(b, a % b)

\* The float n / d, kept exactly.
Rat(n, d) == LET g == GCD(Abs(n), d) IN <<n \div g, d \div g>>

RECURSIVE SumSeq(_)
SumSeq(s) == IF s = <<>> THEN 0 ELSE Head(s) + SumSeq(Tail(s))

SetMin(S) == CHOOSE x \in S : \A y \in S : x <= y

SetMax(S) == CHOOSE x \in S : \A y \in S : y <= x

\* sorted(S)
RECURSIVE Sorted(_)
Sorted(S) == IF S = {} THEN <<>> ELSE <<SetMin(S)>> \o Sorted(S \ {SetMin(S)})

\* ---- the store ------------------------------------------------------------
\* (mutant) the filter on game_id is missing: the team's rows of every game
QueryAnyGame(store, g, t) == { row \in store : row.team = t }

\* db.query(Simulation).filter(Simulation.game_id == g, Simulation.team == t)
\* on a Simulation table holding the rows of store
Query(store, g, t) == { row \in store : row.game_id = g /\ row.team = t }

\* .all(): the rows as a list; the query has no ORDER BY, so any order.
All(S) ==
  { s \in [1..Cardinality(S) -> S] : \A i, j \in 1..Cardinality(S) : i # j => s[i] # s[j] }

\* (mutant) a run already in the dict is not overwritten: the first row wins
ScoreDictFirstWins(sim_list) ==
  [ r \in { sim_list[i].simulation_run : i \in DOMAIN sim_list } |->
      sim_list[SetMin({ i \in DOMAIN sim_list : sim_list[i].simulation_run = r })].results ]

\* (mutant) the rows are keyed by their position in the list, not by run
ScoreDictByPosition(sim_list) == [ i \in DOMAIN sim_list |-> sim_list[i].results ]

\* {sim.simulation_run: sim.results for sim in sim_list}: a later row wins.
ScoreDict(sim_list) ==
  [ r \in { sim_list[i].simulation_run : i \in DOMAIN sim_list } |->
      sim_list[SetMax({ i \in DOMAIN sim_list : sim_list[i].simulation_run = r })].results ]

\* sorted(set(home_scores.keys()).intersection(away_scores.keys()))
CommonRuns(home_scores, away_scores) ==
  Sorted((DOMAIN home_scores) \cap (DOMAIN away_scores))

\* ---- compute_game_features ------------------------------------------------
\* np.mean(xs)
Mean(xs) == Rat(SumSeq(xs), Len(xs))

\* (mutant) a tie counts as a home win
WinsOrTies(home_scores, away_scores, common_runs) ==
  Cardinality({ i \in DOMAIN common_runs :
                  home_scores[common_runs[i]] >= away_scores[common_runs[i]] })

\* (mutant) every home run is counted, a missing away score taken as 0
WinsAwayDefaultZero(home_scores, away_scores, common_runs) ==
  Cardinality({ r \in DOMAIN home_scores :
                  home_scores[r] > (IF r \in DOMAIN away_scores THEN away_scores[r] ELSE 0) })

\* sum(1 for run in common_runs if home_scores[run] > away_scores[run])
Wins(home_scores, away_scores, common_runs) ==
  Cardinality({ i \in DOMAIN common_runs :
                  home_scores[common_runs[i]] > away_scores[common_runs[i]] })

\* wins / len(common_runs) if common_runs else 0
WinPercentage(wins, common_runs) ==
  IF common_runs # <<>> THEN Rat(wins, Len(common_runs)) ELSE Rat(0, 1)

\* (mutant) a single common run is treated as insufficient data
ComputeGameFeaturesMinTwo(home_sims, away_sims) ==
  IF home_sims = <<>> \/ away_sims = <<>> THEN None
  ELSE LET home_scores == ScoreDict(home_sims)
           away_scores == ScoreDict(away_sims)
           common_runs == CommonRuns(home_scores, away_scores)
       IN IF Len(common_runs) < 2 THEN None
          ELSE Return("list",
                 << Mean([i \in DOMAIN common_runs |-> home_scores[common_runs[i]]]),
                    Mean([i \in DOMAIN common_runs |-> away_scores[common_runs[i]]]),
                    WinPercentage(Wins(home_scores, away_scores, common_runs), common_runs) >>)

\* (mutant) the averages are taken over all rows of each team, not over the
\* common runs
ComputeGameFeaturesAllRuns(home_sims, away_sims) ==
  IF home_sims = <<>> \/ away_sims = <<>> THEN None
  ELSE LET home_scores == ScoreDict(home_sims)
           away_scores == ScoreDict(away_sims)
           common_runs == CommonRuns(home_scores, away_scores)
       IN IF common_runs = <<>> THEN None
          ELSE Return("list",
                 << Mean([i \in DOMAIN home_sims |-> home_sims[i].results]),
                    Mean([i \in DOMAIN away_sims |-> away_sims[i].results]),
                    WinPercentage(Wins(home_scores, away_scores, common_runs), common_runs) >>)

ComputeGameFeatures(home_sims, away_sims) ==
  IF home_sims = <<>> \/ away_sims = <<>> THEN None
  ELSE LET home_scores == ScoreDict(home_sims)
           away_scores == ScoreDict(away_sims)
           common_runs == CommonRuns(home_scores, away_scores)
       IN IF common_runs = <<>> THEN None
          ELSE LET avg_home == Mean([i \in DOMAIN common_runs |-> home_scores[common_runs[i]]])
                   avg_away == Mean([i \in DOMAIN common_runs |-> away_scores[common_runs[i]]])
                   wins == Wins(home_scores, away_scores, common_runs)
                   win_percentage == WinPercentage(wins, common_runs)
               IN Return("list", <<avg_home, avg_away, win_percentage>>)

\* ---- cluster_simulation_runs ----------------------------------------------
\* (mutant) the raw home and away scores are the features
FeaturesRawScores(home_scores, away_scores, common_runs) ==
  [ i \in DOMAIN common_runs |->
      <<Rat(home_scores[common_runs[i]], 1), Rat(away_scores[common_runs[i]], 1)>> ]

\* features.append([avg_score, diff]) for run in common_runs, with
\* avg_score = (home_score + away_score) / 2 and diff = home_score - away_score
Features(home_scores, away_scores, common_runs) ==
  [ i \in DOMAIN common_runs |->
      LET home_score == home_scores[common_runs[i]]
          away_score == away_scores[common_runs[i]]
      IN <<Rat(home_score + away_score, 2), Rat(home_score - away_score, 1)>> ]

\* (mutant) the position in common_runs is recorded instead of the run number
RunNumbersByIndex(common_runs) == [ i \in DOMAIN common_runs |-> i ]

\* run_numbers.append(run) for run in common_runs
RunNumbers(common_runs) == [ i \in DOMAIN common_runs |-> common_runs[i] ]

RECURSIVE LCMDen(_)
LCMDen(col) ==
  IF col = <<>> THEN 1
  ELSE LET d == Head(col)[2]
           m == LCMDen(Tail(col))
       IN (d * m) \div GCD(d, m)

\* One column of StandardScaler().fit_transform: (x - mean) / std with the
\* population std; a std of 0 is replaced by 1, so a constant column maps to
\* zeros.  With the column written over a common denominator as p[i] / D,
\* (x[i] - mean) / std = (n * p[i] - sum(p)) / sqrt(n * sum(p^2) - sum(p)^2).
ScaleColumn(col) ==
  LET n == Len(col)
      D == LCMDen(col)
      p == [ i \in DOMAIN col |-> col[i][1] * (D \div col[i][2]) ]
      S == SumSeq(p)
      V == n * SumSeq([ i \in DOMAIN p |-> p[i] * p[i] ]) - S * S
  IN [ i \in DOMAIN col |->
         IF V = 0 THEN [num |-> 0, var |-> 1] ELSE [num |-> n * p[i] - S, var |-> V] ]

\* scaler.fit_transform(features)
FitTransform(features) ==
  LET c1 == ScaleColumn([ i \in DOMAIN features |-> features[i][1] ])
      c2 == ScaleColumn([ i \in DOMAIN features |-> features[i][2] ])
  IN [ i \in DOMAIN features |-> <<c1[i], c2[i]>> ]

\* ---- KMeans(n_clusters, random_state).fit_predict --------------------------
\* max_iter of KMeans (its default).
max_iter == 300

\* A centre is the mean sum / cnt of the points assigned to it, kept as the
\* pair of column sums of the points' numerators and the count.
CentreOf(Z, members) ==
  [ sum |-> << SumSeq([ j \in 1..Len(Sorted(members)) |-> Z[Sorted(members)[j]][1].num ]),
               SumSeq([ j \in 1..Len(Sorted(members)) |-> Z[Sorted(members)[j]][2].num ]) >>,
    cnt |-> Cardinality(members) ]

\* Squared Euclidean distance from point z to centre c, times
\* c.cnt^2 * var1 * var2 (the two columns' variances, the same for all rows).
DistW(z, c) ==
  LET d1 == c.cnt * z[1].num - c.sum[1]
      d2 == c.cnt * z[2].num - c.sum[2]
  IN d1 * d1 * z[2].var + d2 * d2 * z[1].var

Closer(z, c1, c2) == DistW(z, c1) * c2.cnt * c2.cnt < DistW(z, c2) * c1.cnt * c1.cnt

\* argmin over the centres of the distance to z: the first of the nearest.
Nearest(z, centres) ==
  SetMin({ j \in DOMAIN centres : \A j2 \in DOMAIN centres : ~Closer(z, centres[j2], centres[j]) })

Assign(Z, centres) == [ i \in DOMAIN Z |-> Nearest(Z[i], centres) ]

\* New centres: the mean of each cluster; a cluster left empty keeps its centre.
Update(Z, labels, centres) ==
  [ j \in DOMAIN centres |->
      LET members == { i \in DOMAIN Z : labels[i] = j }
      IN IF members = {} THEN centres[j] ELSE CentreOf(Z, members) ]

RECURSIVE Lloyd(_, _, _, _)
Lloyd(Z, centres, labels, iter) ==
  LET new == Assign(Z, centres)
  IN IF new = labels \/ iter >= max_iter THEN new
     ELSE Lloyd(Z, Update(Z, new, centres), new, iter + 1)

RECURSIVE Power(_, _)
Power(b, e) == IF e = 0 THEN 1 ELSE b * Power(b, e - 1)

\* k-means++ seeding with the random stream of the given seed: the first
\* centre is any row, each further centre a row at a positive distance from
\* the centres chosen so far (any row when there is none).
RECURSIVE InitRows(_, _, _, _)
InitRows(Z, k, seed, chosen) ==
  IF Len(chosen) = k THEN chosen
  ELSE LET far == { i \in DOMAIN Z :
                      \A t \in DOMAIN chosen :
                        <<Z[i][1].num, Z[i][2].num>> # <<Z[chosen[t]][1].num, Z[chosen[t]][2].num>> }
           cands == Sorted(IF far = {} THEN DOMAIN Z ELSE far)
           draw == (seed \div Power(Len(Z), Len(chosen))) % Len(cands)
       IN InitRows(Z, k, seed, Append(chosen, cands[draw + 1]))

\* labels of fit_predict, or the error the estimator raises
FitPredict(Z, n_clusters, seed) ==
  IF n_clusters < 1 \/ Len(Z) < n_clusters THEN ValueError
  ELSE LET rows == InitRows(Z, n_clusters, seed, <<>>)
           centres == [ j \in DOMAIN rows |-> CentreOf(Z, {rows[j]}) ]
           labels == Lloyd(Z, centres, <<>>, 1)
       IN Return("labels", [ i \in DOMAIN labels |-> labels[i] - 1 ])

\* (mutant) random_state=None: every call draws from an unseeded generator
RandomStateUnseeded == Seeds

\* random_state=42: every call seeds a fresh generator with 42.
RandomState == {seed42}

\* (mutant) dict(zip(labels, run_numbers)): the labels become the keys
DictZipSwapped(run_numbers, labels) ==
  LET m == IF Len(run_numbers) < Len(labels) THEN Len(run_numbers) ELSE Len(labels)
  IN [ l \in { labels[i] : i \in 1..m } |->
         run_numbers[SetMax({ i \in 1..m : labels[i] = l })] ]

\* dict(zip(run_numbers, labels))
DictZip(run_numbers, labels) ==
  LET m == IF Len(run_numbers) < Len(labels) THEN Len(run_numbers) ELSE Len(labels)
  IN [ r \in { run_numbers[i] : i \in 1..m } |->
         labels[SetMax({ i \in 1..m : run_numbers[i] = r })] ]

\* (mutant) no early return for an empty common_runs: the empty matrix
\* reaches the scaler and the estimator
ClusterRunsNoEmptyCheck(home_scores, away_scores, n_clusters, seed) ==
  LET common_runs == CommonRuns(home_scores, away_scores)
      labels == FitPredict(FitTransform(Features(home_scores, away_scores, common_runs)),
                           n_clusters, seed)
  IN IF labels = ValueError THEN ValueError
     ELSE Return("dict", DictZip(RunNumbers(common_runs), labels.v))

\* (mutant) the estimator is built with the default of three clusters, the
\* argument is ignored
ClusterRunsDefaultK(home_scores, away_scores, n_clusters, seed) ==
  LET common_runs == CommonRuns(home_scores, away_scores)
  IN IF common_runs = <<>> THEN Return("dict", <<>>)
     ELSE LET labels == FitPredict(FitTransform(Features(home_scores, away_scores, common_runs)),
                                   3, seed)
          IN IF labels = ValueError THEN ValueError
             ELSE Return("dict", DictZip(RunNumbers(common_runs), labels.v))

\* (mutant) n_clusters is clamped to the number of common runs
ClusterRunsClampedK(home_scores, away_scores, n_clusters, seed) ==
  LET common_runs == CommonRuns(home_scores, away_scores)
      k == IF n_clusters > Len(common_runs) THEN Len(common_runs) ELSE n_clusters
  IN IF common_runs = <<>> THEN Return("dict", <<>>)
     ELSE LET labels == FitPredict(FitTransform(Features(home_scores, away_scores, common_runs)),
                                   k, seed)
          IN IF labels = ValueError THEN ValueError
             ELSE Return("dict", DictZip(RunNumbers(common_runs), labels.v))

\* The body of cluster_simulation_runs from the two run -> score dicts on.
ClusterRuns(home_scores, away_scores, n_clusters, seed) ==
  LET common_runs == CommonRuns(home_scores, away_scores)
  IN IF common_runs = <<>> THEN Return("dict", <<>>)
     ELSE LET features == Features(home_scores, away_scores, common_runs)
              run_numbers == RunNumbers(common_runs)
              features_scaled == FitTransform(features)
              labels == FitPredict(features_scaled, n_clusters, seed)
          IN IF labels = ValueError THEN ValueError
             ELSE Return("dict", DictZip(run_numbers, labels.v))

ClusterSimulationRuns(home_sims, away_sims, n_clusters, seed) ==
  ClusterRuns(ScoreDict(home_sims), ScoreDict(away_sims), n_clusters, seed)

\* ---- operations -----------------------------------------------------------
\* No estimator is fitting.
NoEstimator == [pc |-> "none"]

\* The page is not open in a browser.
NotLoaded == [mounted |-> FALSE]

FrontendNotLoaded ==
  /\ App = NotLoaded
  /\ Login = NotLoaded
  /\ GameSelector = NotLoaded
  /\ AnalyticsDashboard = NotLoaded
  /\ EnhancedChart = NotLoaded
  /\ fetches = <<>>

Idle == [op |-> "none", game |-> 0, k |-> 0, ret |-> None]

\* A thread that executes no call, and a frame before its first assignment.
NoCall == [pc |-> "idle", op |-> "none", game |-> 0, k |-> 0, ret |-> None]

NoLocals ==
  [ home_sims |-> <<>>, away_sims |-> <<>>, home_scores |-> <<>>, away_scores |-> <<>>,
    common_runs |-> <<>>, features |-> <<>>, run_numbers |-> <<>>,
    features_scaled |-> <<>>, labels |-> <<>> ]

Init ==
  /\ games = GameTable
  /\ sims \in StoreDomain
  /\ seed42 \in Seeds
  /\ last = Idle
  /\ workers = {}
  /\ call = [t \in Threads |-> NoCall]
  /\ frame = [f \in Threads |-> NoLocals]
  /\ kmeans = NoEstimator
  /\ FrontendNotLoaded

\* Every value a call of compute_game_features for game g can return on the
\* given table (one per order in which the two queries list their rows).
FeatureOutcomes(store, g) ==
  { ComputeGameFeatures(home_sims, away_sims) :
      home_sims \in All(Query(store, games[g].id, games[g].home_team)),
      away_sims \in All(Query(store, games[g].id, games[g].away_team)) }

\* Every value a call of cluster_simulation_runs can return on the given table.
ClusterOutcomes(store, g, n_clusters) ==
  LET home_dicts == { ScoreDict(home_sims) :
                        home_sims \in All(Query(store, games[g].id, games[g].home_team)) }
      away_dicts == { ScoreDict(away_sims) :
                        away_sims \in All(Query(store, games[g].id, games[g].away_team)) }
  IN UNION { { ClusterRuns(home_scores, away_scores, n_clusters, seed) :
                 home_scores \in home_dicts, away_scores \in away_dicts } :
             seed \in RandomState }

\* (mutant) the call tidies the table: rows of the game whose run the other
\* team lacks are deleted and the session is committed
compute_game_features_pruning(g) ==
  /\ last.op = "none"
  /\ \E ret \in FeatureOutcomes(sims, g) :
       last' = [op |-> "compute_game_features", game |-> g, k |-> 0, ret |-> ret]
  /\ sims' = { row \in sims :
                 (row.game_id = games[g].id /\ row.team \in {games[g].home_team, games[g].away_team})
                   => \E other \in sims :
                        /\ other.game_id = row.game_id /\ other.team # row.team
                        /\ other.team \in {games[g].home_team, games[g].away_team}
                        /\ other.simulation_run = row.simulation_run }
  /\ UNCHANGED <<frontend, kmeans, games, seed42, workers, call, frame>>

compute_game_features(g) ==
  /\ last.op = "none"
  /\ \E ret \in FeatureOutcomes(sims, g) :
       last' = [op |-> "compute_game_features", game |-> g, k |-> 0, ret |-> ret]
  /\ UNCHANGED <<frontend, kmeans, games, sims, seed42, workers, call, frame>>

cluster_simulation_runs(g, n_clusters) ==
  /\ last.op = "none"
  /\ \E ret \in ClusterOutcomes(sims, g, n_clusters) :
       last' = [op |-> "cluster_simulation_runs", game |-> g, k |-> n_clusters, ret |-> ret]
  /\ UNCHANGED <<frontend, kmeans, games, sims, seed42, workers, call, frame>>

\* The response is delivered; the next request can be served.
ReturnToCaller ==
  /\ last.op # "none"
  /\ last' = Idle
  /\ UNCHANGED <<frontend, kmeans, games, sims, seed42, workers, call, frame>>

Next ==
  \/ \E g \in GameIds : compute_game_features(g)
  \/ \E g \in GameIds, n_clusters \in Ks : cluster_simulation_runs(g, n_clusters)
  \/ ReturnToCaller

Spec == Init /\ [][Next]_vars

\* ---- the two functions, statement by statement ------------------------------
\* Tables of the runs with two worker threads: the rows of the other game are
\* present and no run number exceeds MaxThreadRun.
ThreadStores ==
  { store \in StoreDomain :
      /\ OtherGameRows \subseteq store
      /\ ThirdTeamRows \cap store = {}
      /\ \A row \in store : row.simulation_run <= MaxThreadRun }

\* (mutant) the working variables are module-level: every call uses the same
\* ones
FrameShared(t) == 1

\* Each call of a function has its own frame of local variables.
FrameOf(t) == t

Locals(t) == frame[FrameOf(t)]

Goto(t, pc) == call' = [call EXCEPT ![t].pc = pc]

Finish(t, ret) == call' = [call EXCEPT ![t].pc = "done", ![t].ret = ret]

Assign1(t, name, value) == frame' = [frame EXCEPT ![FrameOf(t)][name] = value]

\* Thread t is handed a call of compute_game_features(game, db); the calls in
\* flight are for different games.
BeginFeatures(t, g) ==
  /\ t \in workers /\ call[t].pc = "idle"
  /\ \A u \in Threads \ {t} : call[u].pc # "idle" => call[u].game # g
  /\ call' = [call EXCEPT ![t] =
                [pc |-> "home_sims", op |-> "compute_game_features", game |-> g,
                 k |-> 0, ret |-> None]]
  /\ frame' = [frame EXCEPT ![FrameOf(t)] = NoLocals]
  /\ UNCHANGED <<frontend, kmeans, games, sims, seed42, last, workers>>

\* Thread t is handed a call of cluster_simulation_runs(game, db, n_clusters).
BeginCluster(t, g, n_clusters) ==
  /\ t \in workers /\ call[t].pc = "idle"
  /\ \A u \in Threads \ {t} : call[u].pc # "idle" => call[u].game # g
  /\ call' = [call EXCEPT ![t] =
                [pc |-> "home_sims", op |-> "cluster_simulation_runs", game |-> g,
                 k |-> n_clusters, ret |-> None]]
  /\ frame' = [frame EXCEPT ![FrameOf(t)] = NoLocals]
  /\ UNCHANGED <<frontend, kmeans, games, sims, seed42, last, workers>>

\* home_sims = db.query(Simulation).filter(game_id == game.id,
\*                                         team == game.home_team).all()
QueryHome(t) ==
  /\ call[t].pc = "home_sims"
  /\ \E home_sims \in All(Query(sims, games[call[t].game].id, games[call[t].game].home_team)) :
       Assign1(t, "home_sims", home_sims)
  /\ Goto(t, "away_sims")
  /\ UNCHANGED <<frontend, kmeans, games, sims, seed42, last, workers>>

\* away_sims = db.query(Simulation).filter(game_id == game.id,
\*                                         team == game.away_team).all()
QueryAway(t) ==
  /\ call[t].pc = "away_sims"
  /\ \E away_sims \in All(Query(sims, games[call[t].game].id, games[call[t].game].away_team)) :
       Assign1(t, "away_sims", away_sims)
  /\ Goto(t, IF call[t].op = "compute_game_features" THEN "check_sims" ELSE "scores")
  /\ UNCHANGED <<frontend, kmeans, games, sims, seed42, last, workers>>

\* compute_game_features: if not home_sims or not away_sims: return None
CheckSims(t) ==
  /\ call[t].pc = "check_sims"
  /\ IF Locals(t).home_sims = <<>> \/ Locals(t).away_sims = <<>>
     THEN Finish(t, None)
     ELSE Goto(t, "scores")
  /\ UNCHANGED <<frontend, kmeans, games, sims, seed42, last, workers, frame>>

\* home_scores = {...}; away_scores = {...}; common_runs = sorted(...)
BuildScores(t) ==
  /\ call[t].pc = "scores"
  /\ LET home_scores == ScoreDict(Locals(t).home_sims)
         away_scores == ScoreDict(Locals(t).away_sims)
     IN frame' = [frame EXCEPT ![FrameOf(t)].home_scores = home_scores,
                               ![FrameOf(t)].away_scores = away_scores,
                               ![FrameOf(t)].common_runs =
                                  CommonRuns(home_scores, away_scores)]
  /\ Goto(t, "check_common")
  /\ UNCHANGED <<frontend, kmeans, games, sims, seed42, last, workers>>

\* (mutant) compute_game_features has no early return for an empty
\* common_runs
CheckCommonFeaturesOn(t) ==
  /\ call[t].pc = "check_common"
  /\ IF Locals(t).common_runs = <<>> /\ call[t].op = "cluster_simulation_runs"
     THEN Finish(t, Return("dict", <<>>))
     ELSE Goto(t, IF call[t].op = "compute_game_features" THEN "averages" ELSE "features")
  /\ UNCHANGED <<frontend, kmeans, games, sims, seed42, last, workers, frame>>

\* (mutant) cluster_simulation_runs goes on with an empty common_runs
CheckCommonSkipped(t) ==
  /\ call[t].pc = "check_common"
  /\ IF Locals(t).common_runs = <<>> /\ call[t].op = "compute_game_features"
     THEN Finish(t, None)
     ELSE Goto(t, IF call[t].op = "compute_game_features" THEN "averages" ELSE "features")
  /\ UNCHANGED <<frontend, kmeans, games, sims, seed42, last, workers, frame>>

\* if not common_runs: return None (compute_game_features), return {}
\* (cluster_simulation_runs)
CheckCommon(t) ==
  /\ call[t].pc = "check_common"
  /\ IF Locals(t).common_runs = <<>>
     THEN Finish(t, IF call[t].op = "compute_game_features" THEN None
                    ELSE Return("dict", <<>>))
     ELSE Goto(t, IF call[t].op = "compute_game_features" THEN "averages" ELSE "features")
  /\ UNCHANGED <<frontend, kmeans, games, sims, seed42, last, workers, frame>>

\* avg_home, avg_away, wins, win_percentage; return [avg_home, avg_away,
\* win_percentage]
Averages(t) ==
  /\ call[t].pc = "averages"
  /\ LET home_scores == Locals(t).home_scores
         away_scores == Locals(t).away_scores
         common_runs == Locals(t).common_runs
         avg_home == Mean([i \in DOMAIN common_runs |-> home_scores[common_runs[i]]])
         avg_away == Mean([i \in DOMAIN common_runs |-> away_scores[common_runs[i]]])
         wins == Wins(home_scores, away_scores, common_runs)
         win_percentage == WinPercentage(wins, common_runs)
     IN Finish(t, Return("list", <<avg_home, avg_away, win_percentage>>))
  /\ UNCHANGED <<frontend, kmeans, games, sims, seed42, last, workers, frame>>

\* the loop over common_runs that fills features and run_numbers
BuildFeatures(t) ==
  /\ call[t].pc = "features"
  /\ frame' = [frame EXCEPT
                 ![FrameOf(t)].features =
                    Features(Locals(t).home_scores, Locals(t).away_scores, Locals(t).common_runs),
                 ![FrameOf(t)].run_numbers = RunNumbers(Locals(t).common_runs)]
  /\ Goto(t, "features_scaled")
  /\ UNCHANGED <<frontend, kmeans, games, sims, seed42, last, workers>>

\* (mutant) standardization written by hand, (x - mean) / std with no guard
\* for a std of 0: a constant column becomes 0 / 0
ScaleByHand(t) ==
  /\ call[t].pc = "features_scaled"
  /\ LET Z == FitTransform(Locals(t).features)
         constant(c) == \A i, j \in DOMAIN Locals(t).features :
                          Locals(t).features[i][c] = Locals(t).features[j][c]
     IN Assign1(t, "features_scaled",
                [ i \in DOMAIN Z |->
                    [ c \in 1..2 |-> IF constant(c) THEN [num |-> 0, var |-> 0] ELSE Z[i][c] ] ])
  /\ Goto(t, "labels")
  /\ UNCHANGED <<frontend, kmeans, games, sims, seed42, last, workers>>

\* (mutant) the features reach the estimator as they are
ScaleSkipped(t) ==
  /\ call[t].pc = "features_scaled"
  /\ Assign1(t, "features_scaled",
             [ i \in DOMAIN Locals(t).features |->
                 [ c \in 1..2 |->
                     [num |-> Locals(t).features[i][c][1],
                      var |-> Locals(t).features[i][c][2] * Locals(t).features[i][c][2]] ] ])
  /\ Goto(t, "labels")
  /\ UNCHANGED <<frontend, kmeans, games, sims, seed42, last, workers>>

\* scaler = StandardScaler(); features_scaled = scaler.fit_transform(features)
Scale(t) ==
  /\ call[t].pc = "features_scaled"
  /\ Assign1(t, "features_scaled", FitTransform(Locals(t).features))
  /\ Goto(t, "labels")
  /\ UNCHANGED <<frontend, kmeans, games, sims, seed42, last, workers>>

\* kmeans = KMeans(n_clusters=n_clusters, random_state=42)
\* labels = kmeans.fit_predict(features_scaled); an error it raises ends the
\* call
Cluster(t) ==
  /\ call[t].pc = "labels"
  /\ \E seed \in RandomState :
       LET labels == FitPredict(Locals(t).features_scaled, call[t].k, seed)
       IN IF labels = ValueError
          THEN Finish(t, ValueError) /\ UNCHANGED frame
          ELSE Assign1(t, "labels", labels.v) /\ Goto(t, "return")
  /\ UNCHANGED <<frontend, kmeans, games, sims, seed42, last, workers>>

\* return dict(zip(run_numbers, [int(label) for label in labels]))
ReturnDict(t) ==
  /\ call[t].pc = "return"
  /\ Finish(t, Return("dict", DictZip(Locals(t).run_numbers, Locals(t).labels)))
  /\ UNCHANGED <<frontend, kmeans, games, sims, seed42, last, workers, frame>>

\* The caller takes the result; the frame is gone.
Done(t) ==
  /\ call[t].pc = "done"
  /\ call' = [call EXCEPT ![t] = NoCall]
  /\ frame' = [frame EXCEPT ![FrameOf(t)] = NoLocals]
  /\ UNCHANGED <<frontend, kmeans, games, sims, seed42, last, workers>>

NextSteps ==
  \/ \E t \in Threads, g \in GameIds : BeginFeatures(t, g)
  \/ \E t \in Threads, g \in GameIds, n_clusters \in Ks : BeginCluster(t, g, n_clusters)
  \/ \E t \in Threads : QueryHome(t)
  \/ \E t \in Threads : QueryAway(t)
  \/ \E t \in Threads : CheckSims(t)
  \/ \E t \in Threads : BuildScores(t)
  \/ \E t \in Threads : CheckCommon(t)
  \/ \E t \in Threads : Averages(t)
  \/ \E t \in Threads : BuildFeatures(t)
  \/ \E t \in Threads : Scale(t)
  \/ \E t \in Threads : Cluster(t)
  \/ \E t \in Threads : ReturnDict(t)
  \/ \E t \in Threads : Done(t)

\* Tables of the runs with one worker thread: every content of game 1, the
\* rows of the other game and of the third team present.
StepStores ==
  { store \in StoreDomain : OtherGameRows \subseteq store /\ ThirdTeamRows \subseteq store }

\* One thread serves the calls one after the other.
InitSteps ==
  /\ games = GameTable
  /\ sims \in StepStores
  /\ seed42 \in Seeds
  /\ last = Idle
  /\ workers = {1}
  /\ call = [t \in Threads |-> NoCall]
  /\ frame = [f \in Threads |-> NoLocals]
  /\ kmeans = NoEstimator
  /\ FrontendNotLoaded

SpecSteps == InitSteps /\ [][NextSteps]_vars

\* Tables in which a team can have several rows of the same run, with
\* different scores: for both teams of game 1 and every run 1..MaxDupRun, any
\* set of scores.
DupStores ==
  { UNION { { Row(1, key[1], key[2], score) : score \in f[key] } :
            key \in {"A", "B"} \X (1..MaxDupRun) } :
      f \in [{"A", "B"} \X (1..MaxDupRun) -> SUBSET Scores] }

InitDupSteps ==
  /\ games = GameTable
  /\ sims \in DupStores
  /\ seed42 \in Seeds
  /\ last = Idle
  /\ workers = {1}
  /\ call = [t \in Threads |-> NoCall]
  /\ frame = [f \in Threads |-> NoLocals]
  /\ kmeans = NoEstimator
  /\ FrontendNotLoaded

\* One thread serves the calls on a table with duplicated runs.
SpecDupSteps == InitDupSteps /\ [][NextSteps]_vars

\* Every thread serves calls, the steps of the calls interleave.
InitThreads ==
  /\ games = GameTable
  /\ sims \in ThreadStores
  /\ seed42 \in Seeds
  /\ last = Idle
  /\ workers = Threads
  /\ call = [t \in Threads |-> NoCall]
  /\ frame = [f \in Threads |-> NoLocals]
  /\ kmeans = NoEstimator
  /\ FrontendNotLoaded

SpecThreads == InitThreads /\ [][NextSteps]_vars

\* ---- what the claims speak of -----------------------------------------------
Featured == last.op = "compute_game_features"

Clustered == last.op = "cluster_simulation_runs"

HomeRows(store, g) ==
  { row \in store : row.game_id = g /\ row.team = games[g].home_team }

AwayRows(store, g) ==
  { row \in store : row.game_id = g /\ row.team = games[g].away_team }

HomeRunSet(store, g) == { row.simulation_run : row \in HomeRows(store, g) }

AwayRunSet(store, g) == { row.simulation_run : row \in AwayRows(store, g) }

CommonRunSet(store, g) == HomeRunSet(store, g) \cap AwayRunSet(store, g)

HomeScore(store, g, r) == (CHOOSE row \in HomeRows(store, g) : row.simulation_run = r).results

AwayScore(store, g, r) == (CHOOSE row \in AwayRows(store, g) : row.simulation_run = r).results

\* C1: whenever cluster_simulation_runs returns a mapping, its key set is
\* exactly the set of run numbers that occur in both the home-team and the
\* away-team rows of the game.
C1_KeysAreCommonRuns ==
  (Clustered /\ last.ret.tag = "dict") =>
    DOMAIN last.ret.v = CommonRunSet(sims, last.game)

\* A mapping was returned for a game that has common runs, a run on the home
\* side only and a run on the away side only.
C1_Witness ==
  /\ Clustered /\ last.ret.tag = "dict"
  /\ CommonRunSet(sims, last.game) # {}
  /\ HomeRunSet(sims, last.game) \ AwayRunSet(sims, last.game) # {}
  /\ AwayRunSet(sims, last.game) \ HomeRunSet(sims, last.game) # {}

\* C2: for a game whose home and away run numbers are disjoint,
\* compute_game_features returns None and cluster_simulation_runs returns the
\* empty mapping.
C2_DisjointRuns ==
  /\ (Featured /\ CommonRunSet(sims, last.game) = {}) => last.ret = None
  /\ (Clustered /\ CommonRunSet(sims, last.game) = {}) => last.ret = Return("dict", <<>>)

\* Both sides have rows, no run is common, and the clusterer was called with
\* a k it could have clustered with.
C2_Witness ==
  /\ Clustered /\ last.k >= 1
  /\ HomeRunSet(sims, last.game) # {} /\ AwayRunSet(sims, last.game) # {}
  /\ CommonRunSet(sims, last.game) = {}
  /\ last.ret = Return("dict", <<>>)

\* C3: compute_game_features returns None exactly when the home team has no
\* rows, the away team has no rows or no run is common; otherwise it returns
\* a vector of exactly three elements.
C3_NoneIffInsufficient ==
  Featured =>
    /\ last.ret = None <=>
         \/ HomeRows(sims, last.game) = {}
         \/ AwayRows(sims, last.game) = {}
         \/ CommonRunSet(sims, last.game) = {}
    /\ last.ret # None => (last.ret.tag = "list" /\ Len(last.ret.v) = 3)

\* A vector was returned for a game with exactly one common run.
C3_Witness ==
  /\ Featured /\ last.ret.tag = "list"
  /\ Cardinality(CommonRunSet(sims, last.game)) = 1

\* The number of common runs the home team wins outright.
StrictHomeWins(store, g) ==
  Cardinality({ r \in CommonRunSet(store, g) : HomeScore(store, g, r) > AwayScore(store, g, r) })

RECURSIVE HomeTotal(_, _, _)
HomeTotal(store, g, R) ==
  IF R = {} THEN 0
  ELSE LET r == CHOOSE x \in R : TRUE
       IN HomeScore(store, g, r) + HomeTotal(store, g, R \ {r})

RECURSIVE AwayTotal(_, _, _)
AwayTotal(store, g, R) ==
  IF R = {} THEN 0
  ELSE LET r == CHOOSE x \in R : TRUE
       IN AwayScore(store, g, r) + AwayTotal(store, g, R \ {r})

\* C4: whenever compute_game_features returns a vector, its third element is
\* wins / |common_runs| * 100 (a value on the 0..100 scale), wins being the
\* number of common runs whose home score is strictly greater than the away
\* score.
C4_WinPercentageTimes100 ==
  (Featured /\ last.ret.tag = "list") =>
    last.ret.v[3][1] * Cardinality(CommonRunSet(sims, last.game))
      = 100 * StrictHomeWins(sims, last.game) * last.ret.v[3][2]

\* The table with the home score of run r set to the away score of run r.
TieStore(store, g, r) ==
  (store \ { row \in HomeRows(store, g) : row.simulation_run = r })
    \cup { Row(g, games[g].home_team, r, AwayScore(store, g, r)) }

\* C5: a common run with equal scores is never counted as a home win: when
\* every common run is a tie the third element is 0, and turning a run the
\* away team wins into a tie leaves the third element unchanged.
C5_TiesAreNotWins ==
  (Featured /\ last.ret.tag = "list") =>
    /\ (\A r \in CommonRunSet(sims, last.game) :
          HomeScore(sims, last.game, r) = AwayScore(sims, last.game, r))
         => last.ret.v[3] = <<0, 1>>
    /\ \A r \in CommonRunSet(sims, last.game) :
         HomeScore(sims, last.game, r) < AwayScore(sims, last.game, r) =>
           \A other \in FeatureOutcomes(TieStore(sims, last.game, r), last.game) :
             other.tag = "list" /\ other.v[3] = last.ret.v[3]

\* A vector was returned for a game with a tie, a run the away team wins and
\* a run the home team wins.
C5_Witness ==
  /\ Featured /\ last.ret.tag = "list"
  /\ \E r \in CommonRunSet(sims, last.game) :
       HomeScore(sims, last.game, r) = AwayScore(sims, last.game, r)
  /\ \E r \in CommonRunSet(sims, last.game) :
       HomeScore(sims, last.game, r) < AwayScore(sims, last.game, r)
  /\ last.ret.v[3] = <<1, 3>>

\* C6: whenever compute_game_features returns a vector, its first element is
\* the sum of the home scores of the common runs divided by the number of
\* common runs, and its second element the same for the away scores.
C6_AveragesOverCommonRuns ==
  (Featured /\ last.ret.tag = "list") =>
    LET R == CommonRunSet(sims, last.game)
    IN /\ last.ret.v[1][1] * Cardinality(R) = HomeTotal(sims, last.game, R) * last.ret.v[1][2]
       /\ last.ret.v[2][1] * Cardinality(R) = AwayTotal(sims, last.game, R) * last.ret.v[2][2]

\* A vector with a fractional home average was returned for a game that also
\* has a home-only run with a positive score.
C6_Witness ==
  /\ Featured /\ last.ret.tag = "list"
  /\ last.ret.v[1][2] # 1
  /\ \E row \in HomeRows(sims, last.game) :
       row.simulation_run \notin CommonRunSet(sims, last.game) /\ row.results > 0

\* The tables that differ from store in one row of a run that only one side
\* of game g has: the row removed, its score changed, or such a row added.
OneSidedVariants(store, g) ==
  LET oneSided == { row \in HomeRows(store, g) \cup AwayRows(store, g) :
                      row.simulation_run \notin CommonRunSet(store, g) }
      freeRuns == Runs \ (HomeRunSet(store, g) \cup AwayRunSet(store, g))
  IN { store \ {row} : row \in oneSided }
       \cup { (store \ {row}) \cup {[row EXCEPT !.results = s]} :
                row \in oneSided, s \in Scores }
       \cup { store \cup {Row(g, t, r, s)} :
                t \in {games[g].home_team, games[g].away_team}, r \in freeRuns, s \in Scores }

\* C7: rows of runs that exist on one side only never influence a result:
\* on a table that differs only in such rows compute_game_features returns
\* the same value and cluster_simulation_runs the same mapping.
C7_OneSidedRunsIgnored ==
  /\ Featured =>
       \A other \in OneSidedVariants(sims, last.game) :
         FeatureOutcomes(other, last.game) = {last.ret}
  /\ Clustered =>
       \A other \in OneSidedVariants(sims, last.game) :
         ClusterOutcomes(other, last.game, last.k) = {last.ret}

\* Two clusters were returned for a game that has a one-sided run.
C7_Witness ==
  /\ Clustered /\ last.ret.tag = "dict"
  /\ \E r1, r2 \in DOMAIN last.ret.v : last.ret.v[r1] # last.ret.v[r2]
  /\ HomeRunSet(sims, last.game) # AwayRunSet(sims, last.game)

\* C8: cluster_simulation_runs is deterministic and history-free: the
\* result a call has returned is the only one a call with that game and k can
\* have, and no step, of either function, changes what the result is computed
\* from (the two tables and the generator's seed).
C8_Deterministic ==
  [][/\ Clustered => ClusterOutcomes(sims, last.game, last.k) = {last.ret}
     /\ sims' = sims /\ games' = games /\ RandomState' = RandomState]_vars

\* Three runs were split into two clusters.
C8_Witness ==
  /\ Clustered /\ last.ret.tag = "dict"
  /\ Cardinality(DOMAIN last.ret.v) = 3
  /\ \E r1, r2 \in DOMAIN last.ret.v : last.ret.v[r1] # last.ret.v[r2]

\* C9: with k = 1 and at least one common run, cluster_simulation_runs
\* returns a mapping that gives every common run the same label.
C9_SingleCluster ==
  (Clustered /\ last.k = 1 /\ CommonRunSet(sims, last.game) # {}) =>
    /\ last.ret.tag = "dict"
    /\ DOMAIN last.ret.v = CommonRunSet(sims, last.game)
    /\ \A r1, r2 \in DOMAIN last.ret.v : last.ret.v[r1] = last.ret.v[r2]

\* k = 1 was asked for three common runs with three different score pairs.
C9_Witness ==
  /\ Clustered /\ last.k = 1 /\ last.ret.tag = "dict"
  /\ Cardinality(CommonRunSet(sims, last.game)) = 3
  /\ \A r1, r2 \in CommonRunSet(sims, last.game) :
       r1 # r2 => <<HomeScore(sims, last.game, r1), AwayScore(sims, last.game, r1)>>
                    # <<HomeScore(sims, last.game, r2), AwayScore(sims, last.game, r2)>>

\* C10: the partition does not depend on the order in which the queries list
\* the rows: whatever the order, a mapping over the same runs is returned and
\* two runs share a label in it exactly when they share one in the mapping
\* that was returned.
C10_PartitionOrderFree ==
  (Clustered /\ last.ret.tag = "dict") =>
    \A other \in ClusterOutcomes(sims, last.game, last.k) :
      /\ other.tag = "dict"
      /\ DOMAIN other.v = DOMAIN last.ret.v
      /\ \A r1, r2 \in DOMAIN last.ret.v :
           (other.v[r1] = other.v[r2]) <=> (last.ret.v[r1] = last.ret.v[r2])

\* Each side has three rows, so the queries have several orders, and the
\* runs were split into two clusters.
C10_Witness ==
  /\ Clustered /\ last.ret.tag = "dict"
  /\ Cardinality(HomeRows(sims, last.game)) = 3
  /\ Cardinality(AwayRows(sims, last.game)) = 3
  /\ \E r1, r2 \in DOMAIN last.ret.v : last.ret.v[r1] # last.ret.v[r2]

\* ---- KMeans.fit_predict, iteration by iteration ------------------------------
\* The standardized feature matrices cluster_simulation_runs hands to the
\* estimator for game g.
ScaledMatrices(store, g) ==
  LET home_dicts == { ScoreDict(home_sims) :
                        home_sims \in All(Query(store, games[g].id, games[g].home_team)) }
      away_dicts == { ScoreDict(away_sims) :
                        away_sims \in All(Query(store, games[g].id, games[g].away_team)) }
  IN { FitTransform(Features(home_scores, away_scores, CommonRuns(home_scores, away_scores))) :
         home_scores \in home_dicts, away_scores \in away_dicts }

\* kmeans.fit_predict(features_scaled) starts on a non-empty matrix: the
\* parameters are checked and the centres seeded.
FitBegin(g, n_clusters) ==
  /\ kmeans.pc = "none"
  /\ \E Z \in ScaledMatrices(sims, g), seed \in RandomState :
       /\ Z # <<>>
       /\ kmeans' =
            IF n_clusters < 1 \/ Len(Z) < n_clusters
            THEN [pc |-> "raised", Z |-> Z, n_clusters |-> n_clusters, seed |-> seed,
                  centres |-> <<>>, labels |-> <<>>, n_iter |-> 0]
            ELSE LET rows == InitRows(Z, n_clusters, seed, <<>>)
                 IN [pc |-> "iterate", Z |-> Z, n_clusters |-> n_clusters, seed |-> seed,
                     centres |-> [ j \in DOMAIN rows |-> CentreOf(Z, {rows[j]}) ],
                     labels |-> <<>>, n_iter |-> 1]
  /\ UNCHANGED <<frontend, games, sims, seed42, last, workers, call, frame>>

\* (mutant) the loop has no test of the assignments and no cap: it assigns
\* and recomputes for ever
LloydIterationUnbounded ==
  /\ kmeans.pc = "iterate"
  /\ \E new \in {Assign(kmeans.Z, kmeans.centres)} :
       kmeans' = [kmeans EXCEPT !.labels = new,
                                 !.centres = Update(kmeans.Z, new, kmeans.centres)]
  /\ UNCHANGED <<frontend, games, sims, seed42, last, workers, call, frame>>

\* One pass of the loop: assign every point to its nearest centre; stop when
\* the assignments are those of the pass before or the cap is reached,
\* otherwise recompute the centres.
LloydIteration ==
  /\ kmeans.pc = "iterate"
  /\ \E new \in {Assign(kmeans.Z, kmeans.centres)} :
       kmeans' =
          IF new = kmeans.labels \/ kmeans.n_iter >= max_iter
          THEN [kmeans EXCEPT !.labels = new, !.pc = "done"]
          ELSE [kmeans EXCEPT !.labels = new,
                              !.centres = Update(kmeans.Z, new, kmeans.centres),
                              !.n_iter = kmeans.n_iter + 1]
  /\ UNCHANGED <<frontend, games, sims, seed42, last, workers, call, frame>>

\* fit_predict has returned the labels or raised; the estimator is dropped.
FitEnd ==
  /\ kmeans.pc \in {"done", "raised"}
  /\ kmeans' = NoEstimator
  /\ UNCHANGED <<frontend, games, sims, seed42, last, workers, call, frame>>

NextLloyd ==
  \/ \E g \in GameIds, n_clusters \in Ks : FitBegin(g, n_clusters)
  \/ LloydIteration
  \/ FitEnd

\* Tables of the runs of the estimator: both teams of game 1 have a row for
\* every run 1..MaxLloydRun, the home scores range over 0..MaxLloydScore.
LloydStores ==
  { { Row(1, "A", r, home[r]) : r \in 1..MaxLloydRun }
      \cup { Row(1, "B", r, 0) : r \in 1..MaxLloydRun } :
    home \in [1..MaxLloydRun -> 0..MaxLloydScore] }

InitLloyd ==
  /\ games = GameTable
  /\ sims \in LloydStores
  /\ seed42 \in Seeds
  /\ last = Idle
  /\ workers = {}
  /\ call = [t \in Threads |-> NoCall]
  /\ frame = [f \in Threads |-> NoLocals]
  /\ kmeans = NoEstimator
  /\ FrontendNotLoaded

\* The thread that runs the loop keeps running.
SpecLloyd == InitLloyd /\ [][NextLloyd]_vars /\ WF_vars(LloydIteration)

\* ---- the React frontend: App and Login ----------------------------------------
\* JavaScript values: strings, undefined, null, arrays.
Str(v) == [type |-> "string", v |-> v]

Array == [type |-> "array"]

Undefined == [type |-> "undefined"]

Null == [type |-> "null"]

\* A value in a condition: '', undefined and null are falsy.
Truthy(x) == x.type \notin {"undefined", "null"} /\ (x.type = "string" => x.v # "")

\* a || b
Or(a, b) == IF Truthy(a) THEN a ELSE b

\* What GET /games answers: the games with their teams, venue and date.
GamesPayload ==
  << [id |-> 1, home_team |-> "A", away_team |-> "B", venue |-> "Oval", date |-> "d1"],
     [id |-> 2, home_team |-> "A", away_team |-> "B", venue |-> "Oval", date |-> "d2"],
     [id |-> 3, home_team |-> "C", away_team |-> "B", venue |-> "Oval", date |-> "d3"],
     [id |-> 4, home_team |-> "C", away_team |-> "D", venue |-> "Lords", date |-> "d1"] >>

GamesPayloads == { <<>>, GamesPayload }

\* What GET /games/{id} answers.
GameDetails(gameId) == [type |-> "object", id |-> gameId]

\* What POST /login can answer: a status that is OK or not, and a body that
\* is no JSON, the JSON null, or another JSON value, whose detail is a text,
\* the empty text, a list (of validation errors) or absent.
LoginBodies ==
  { [json |-> "none"], [json |-> "null"] }
    \cup { [json |-> "object", detail |-> d] :
             d \in {Str("Invalid credentials"), Str(""), Array, Undefined} }

LoginResponses == { [ok |-> ok, body |-> body] : ok \in BOOLEAN, body \in LoginBodies }

\* if (!loggedIn) return <Login .../>; else the dashboard
AppView(loggedIn) == IF ~loggedIn THEN "Login" ELSE "Dashboard"

\* useState of GameSelector at its first render; its effect has not run yet.
GameSelectorMounted ==
  [ mounted |-> TRUE, homeTeam |-> "", awayTeam |-> "", venue |-> "", dates |-> <<>>,
    selectedDate |-> "", effect |-> "pending", clicks |-> 0, called |-> "none", arg |-> 0 ]

\* App renders with the given loggedIn: the view and the children follow it.
\* A change of loggedIn schedules the effect of App.
Rendered(loggedIn) ==
  /\ App' = [App EXCEPT !.loggedIn = loggedIn, !.view = AppView(loggedIn),
                        !.effect = IF loggedIn # App.loggedIn THEN "pending" ELSE @]
  /\ IF AppView(loggedIn) = "Dashboard" /\ App.view # "Dashboard"
     THEN GameSelector' = GameSelectorMounted
     ELSE UNCHANGED GameSelector

\* (mutant) the effect requests the games whether or not loggedIn is set
AppEffectUnguarded ==
  /\ App.mounted /\ App.effect = "pending"
  /\ App' = [App EXCEPT !.effect = "ran"]
  /\ fetches' = Append(fetches, [url |-> "/games", id |-> 0, state |-> "pending"])
  /\ UNCHANGED <<backend, Login, GameSelector, AnalyticsDashboard, EnhancedChart>>

\* useEffect(() => { if (loggedIn) fetch("/games")... }, [loggedIn])
AppEffect ==
  /\ App.mounted /\ App.effect = "pending"
  /\ App' = [App EXCEPT !.effect = "ran"]
  /\ IF App.loggedIn
     THEN fetches' = Append(fetches, [url |-> "/games", id |-> 0, state |-> "pending"])
     ELSE UNCHANGED fetches
  /\ UNCHANGED <<backend, Login, GameSelector, AnalyticsDashboard, EnhancedChart>>

\* .then(res => res.json()).then(data => setGames(data)): the list arrives;
\* GameSelector gets a new games prop, which schedules its effect.
SetGames(i) ==
  /\ i \in DOMAIN fetches /\ fetches[i].url = "/games" /\ fetches[i].state = "pending"
  /\ \E data \in GamesPayloads : App' = [App EXCEPT !.games = data]
  /\ fetches' = [fetches EXCEPT ![i].state = "ok"]
  /\ GameSelector' = [GameSelector EXCEPT !.effect = "pending"]
  /\ UNCHANGED <<backend, Login, AnalyticsDashboard, EnhancedChart>>

\* .catch(err => console.error(...)): the request or the parsing of its
\* answer failed; no state changes.
FetchFailed(i) ==
  /\ i \in DOMAIN fetches /\ fetches[i].state = "pending"
  /\ fetches' = [fetches EXCEPT ![i].state = "failed"]
  /\ UNCHANGED <<backend, App, Login, GameSelector, AnalyticsDashboard, EnhancedChart>>

\* handleGameSelect: .then(res => res.json()).then(data => setSelectedGame(data))
SetSelectedGame(i) ==
  /\ i \in DOMAIN fetches /\ fetches[i].url = "/games/id" /\ fetches[i].state = "pending"
  /\ App' = [App EXCEPT !.selectedGame = GameDetails(fetches[i].id)]
  /\ fetches' = [fetches EXCEPT ![i].state = "ok"]
  /\ UNCHANGED <<backend, Login, GameSelector, AnalyticsDashboard, EnhancedChart>>

\* setErrorMsg(msg) by submission s; an unmounted Login keeps no state.
SetErrorMsg(s, msg, pc) ==
  Login' = [Login EXCEPT !.errorMsg = IF Login.mounted THEN msg ELSE @,
                         !.submissions[s].set = Append(@, msg),
                         !.submissions[s].pc = pc]

\* handleLogin up to its first await: setErrorMsg(''), then fetch(POST /login)
handleLogin ==
  /\ Login.mounted /\ Len(Login.submissions) < MaxSubmit
  /\ Login' = [Login EXCEPT
                 !.errorMsg = Str(""),
                 !.submissions = Append(@, [pc |-> "fetch", response |-> Null,
                                            set |-> <<Str("")>>, onLoginSuccess |-> 0])]
  /\ UNCHANGED <<backend, App, GameSelector, AnalyticsDashboard, EnhancedChart, fetches>>

\* await fetch(...) resumes with a response
LoginResponse(s) ==
  /\ s \in DOMAIN Login.submissions /\ Login.submissions[s].pc = "fetch"
  /\ \E response \in LoginResponses :
       Login' = [Login EXCEPT !.submissions[s].response = response,
                              !.submissions[s].pc = "json"]
  /\ UNCHANGED <<backend, App, GameSelector, AnalyticsDashboard, EnhancedChart, fetches>>

\* await fetch(...) throws: catch sets the generic message
LoginRequestFailed(s) ==
  /\ s \in DOMAIN Login.submissions /\ Login.submissions[s].pc = "fetch"
  /\ SetErrorMsg(s, Str("An error occurred. Please try again."), "done")
  /\ UNCHANGED <<backend, App, GameSelector, AnalyticsDashboard, EnhancedChart, fetches>>

\* (mutant) the status is not looked at: every parsed answer is a success
LoginBodyStatusIgnored(s) ==
  /\ s \in DOMAIN Login.submissions /\ Login.submissions[s].pc = "json"
  /\ LET response == Login.submissions[s].response
     IN IF response.body.json = "none"
        THEN /\ SetErrorMsg(s, Str("An error occurred. Please try again."), "done")
             /\ UNCHANGED <<App, GameSelector>>
        ELSE /\ Login' = [Login EXCEPT !.mounted = FALSE,
                                       !.submissions[s].onLoginSuccess = @ + 1,
                                       !.submissions[s].pc = "done"]
             /\ Rendered(TRUE)
  /\ UNCHANGED <<backend, AnalyticsDashboard, EnhancedChart, fetches>>

\* await response.json() resumes or throws; then the branch of the status:
\* setErrorMsg(errorData.detail || 'Login failed'), or onLoginSuccess(data),
\* which is App.handleLoginSuccess: setLoggedIn(true)
LoginBody(s) ==
  /\ s \in DOMAIN Login.submissions /\ Login.submissions[s].pc = "json"
  /\ LET response == Login.submissions[s].response
     IN IF response.body.json = "none" \/ (~response.ok /\ response.body.json = "null")
        THEN /\ SetErrorMsg(s, Str("An error occurred. Please try again."), "done")
             /\ UNCHANGED <<App, GameSelector>>
        ELSE IF ~response.ok
        THEN /\ SetErrorMsg(s, Or(response.body.detail, Str("Login failed")), "done")
             /\ UNCHANGED <<App, GameSelector>>
        ELSE /\ Login' = [Login EXCEPT !.mounted = FALSE,
                                       !.submissions[s].onLoginSuccess = @ + 1,
                                       !.submissions[s].pc = "done"]
             /\ Rendered(TRUE)
  /\ UNCHANGED <<backend, AnalyticsDashboard, EnhancedChart, fetches>>

\* ---- the React frontend: GameSelector -------------------------------------------
\* game.home_team === homeTeam && game.away_team === awayTeam && game.venue === venue
MatchesFilters(game, homeTeam, awayTeam, venue) ==
  game.home_team = homeTeam /\ game.away_team = awayTeam /\ game.venue = venue

\* games.filter(...).map(game => game.date)
MatchingDates(gameList, homeTeam, awayTeam, venue) ==
  LET Test(game) == MatchesFilters(game, homeTeam, awayTeam, venue)
      matching == SelectSeq(gameList, Test)
  IN [ i \in DOMAIN matching |-> matching[i].date ]

\* The options the three dropdowns offer besides the empty one.
HomeTeamOptions(gameList) == { gameList[i].home_team : i \in DOMAIN gameList }

AwayTeamOptions(gameList, homeTeam) ==
  { gameList[i].away_team : i \in { j \in DOMAIN gameList : gameList[j].home_team = homeTeam } }

VenueOptions(gameList, homeTeam, awayTeam) ==
  { gameList[i].venue :
      i \in { j \in DOMAIN gameList :
                gameList[j].home_team = homeTeam /\ gameList[j].away_team = awayTeam } }

\* The user can act on GameSelector: it is on the page and React has run the
\* effects of the last render.
GameSelectorReady == GameSelector.mounted /\ GameSelector.effect = "ran"

\* onChange of the home team dropdown: setHomeTeam(e.target.value)
setHomeTeam(value) ==
  /\ GameSelectorReady
  /\ value \in {""} \cup HomeTeamOptions(App.games) /\ value # GameSelector.homeTeam
  /\ GameSelector' = [GameSelector EXCEPT !.homeTeam = value, !.effect = "pending"]
  /\ UNCHANGED <<backend, App, Login, AnalyticsDashboard, EnhancedChart, fetches>>

\* onChange of the away team dropdown, disabled while no home team is selected
setAwayTeam(value) ==
  /\ GameSelectorReady /\ GameSelector.homeTeam # ""
  /\ value \in {""} \cup AwayTeamOptions(App.games, GameSelector.homeTeam)
  /\ value # GameSelector.awayTeam
  /\ GameSelector' = [GameSelector EXCEPT !.awayTeam = value, !.effect = "pending"]
  /\ UNCHANGED <<backend, App, Login, AnalyticsDashboard, EnhancedChart, fetches>>

\* onChange of the venue dropdown, disabled while no away team is selected
setVenue(value) ==
  /\ GameSelectorReady /\ GameSelector.awayTeam # ""
  /\ value \in {""} \cup VenueOptions(App.games, GameSelector.homeTeam, GameSelector.awayTeam)
  /\ value # GameSelector.venue
  /\ GameSelector' = [GameSelector EXCEPT !.venue = value, !.effect = "pending"]
  /\ UNCHANGED <<backend, App, Login, AnalyticsDashboard, EnhancedChart, fetches>>

\* onChange of the date dropdown, rendered when dates.length > 0
setSelectedDate(value) ==
  /\ GameSelectorReady /\ Len(GameSelector.dates) > 0
  /\ value \in {""} \cup { GameSelector.dates[i] : i \in DOMAIN GameSelector.dates }
  /\ value # GameSelector.selectedDate
  /\ GameSelector' = [GameSelector EXCEPT !.selectedDate = value]
  /\ UNCHANGED <<backend, App, Login, AnalyticsDashboard, EnhancedChart, fetches>>

\* (mutant) the effect recomputes the dates and leaves the selected date
GameSelectorEffectKeepsDate ==
  /\ GameSelector.mounted /\ GameSelector.effect = "pending"
  /\ GameSelector' =
       [GameSelector EXCEPT
          !.dates = IF GameSelector.homeTeam # "" /\ GameSelector.awayTeam # ""
                       /\ GameSelector.venue # ""
                    THEN MatchingDates(App.games, GameSelector.homeTeam,
                                       GameSelector.awayTeam, GameSelector.venue)
                    ELSE <<>>,
          !.effect = "ran"]
  /\ UNCHANGED <<backend, App, Login, AnalyticsDashboard, EnhancedChart, fetches>>

\* useEffect(() => { ... setDates(...); setSelectedDate(""); },
\*           [homeTeam, awayTeam, venue, games])
GameSelectorEffect ==
  /\ GameSelector.mounted /\ GameSelector.effect = "pending"
  /\ GameSelector' =
       [GameSelector EXCEPT
          !.dates = IF GameSelector.homeTeam # "" /\ GameSelector.awayTeam # ""
                       /\ GameSelector.venue # ""
                    THEN MatchingDates(App.games, GameSelector.homeTeam,
                                       GameSelector.awayTeam, GameSelector.venue)
                    ELSE <<>>,
          !.selectedDate = "",
          !.effect = "ran"]
  /\ UNCHANGED <<backend, App, Login, AnalyticsDashboard, EnhancedChart, fetches>>

\* The /games/{id} requests sent so far.
Selections == SelectSeq(fetches, LAMBDA f : f.url = "/games/id")

\* App.handleGameSelect(gameId): fetch(`/games/${gameId}`)
handleGameSelect(gameId) ==
  /\ Len(Selections) < MaxSelect
  /\ fetches' = Append(fetches, [url |-> "/games/id", id |-> gameId, state |-> "pending"])

\* games.find(game => all four match), undefined when there is none
FindGame(gameList, homeTeam, awayTeam, venue, selectedDate) ==
  LET found == { i \in DOMAIN gameList :
                   /\ MatchesFilters(gameList[i], homeTeam, awayTeam, venue)
                   /\ gameList[i].date = selectedDate }
  IN IF found = {} THEN Undefined
     ELSE [type |-> "object", id |-> gameList[SetMin(found)].id]

\* (mutant) the date is not part of the search
handleSearchWithoutDate ==
  /\ GameSelectorReady
  /\ IF GameSelector.homeTeam # "" /\ GameSelector.awayTeam # "" /\ GameSelector.venue # ""
     THEN LET found == { i \in DOMAIN App.games :
                           MatchesFilters(App.games[i], GameSelector.homeTeam,
                                          GameSelector.awayTeam, GameSelector.venue) }
          IN IF found # {}
             THEN /\ GameSelector' = [GameSelector EXCEPT !.clicks = 1 - @,
                       !.called = "onSearch", !.arg = App.games[SetMin(found)].id]
                  /\ handleGameSelect(App.games[SetMin(found)].id)
             ELSE /\ GameSelector' = [GameSelector EXCEPT !.clicks = 1 - @,
                       !.called = "alert: No matching game found", !.arg = 0]
                  /\ UNCHANGED fetches
     ELSE /\ GameSelector' = [GameSelector EXCEPT !.clicks = 1 - @,
               !.called = "alert: Please select all fields", !.arg = 0]
          /\ UNCHANGED fetches
  /\ UNCHANGED <<backend, App, Login, AnalyticsDashboard, EnhancedChart>>

\* onClick of "Go".  clicks, called, arg: the parity of the clicks so far and
\* what the last click called, onSearch with its argument or alert.
handleSearch ==
  /\ GameSelectorReady
  /\ IF GameSelector.homeTeam # "" /\ GameSelector.awayTeam # "" /\ GameSelector.venue # ""
        /\ GameSelector.selectedDate # ""
     THEN LET matchingGame == FindGame(App.games, GameSelector.homeTeam, GameSelector.awayTeam,
                                       GameSelector.venue, GameSelector.selectedDate)
          IN IF matchingGame # Undefined
             THEN /\ GameSelector' = [GameSelector EXCEPT !.clicks = 1 - @,
                       !.called = "onSearch", !.arg = matchingGame.id]
                  /\ handleGameSelect(matchingGame.id)
             ELSE /\ GameSelector' = [GameSelector EXCEPT !.clicks = 1 - @,
                       !.called = "alert: No matching game found", !.arg = 0]
                  /\ UNCHANGED fetches
     ELSE /\ GameSelector' = [GameSelector EXCEPT !.clicks = 1 - @,
               !.called = "alert: Please select all fields", !.arg = 0]
          /\ UNCHANGED fetches
  /\ UNCHANGED <<backend, App, Login, AnalyticsDashboard, EnhancedChart>>

\* The page from its load to the dashboard: the login form and App.
NextLogin ==
  \/ AppEffect
  \/ handleLogin
  \/ \E s \in 1..MaxSubmit : LoginResponse(s)
  \/ \E s \in 1..MaxSubmit : LoginRequestFailed(s)
  \/ \E s \in 1..MaxSubmit : LoginBody(s)
  \/ \E i \in 1..(MaxSelect + 1) : SetGames(i)
  \/ \E i \in 1..(MaxSelect + 1) : FetchFailed(i)

\* The page has loaded: App has rendered the login form, its effect has not
\* run yet.  The server's tables are those of the backend.
InitLogin ==
  /\ games = GameTable
  /\ sims = {}
  /\ seed42 = 0
  /\ last = Idle
  /\ workers = {}
  /\ call = [t \in Threads |-> NoCall]
  /\ frame = [f \in Threads |-> NoLocals]
  /\ kmeans = NoEstimator
  /\ App = [mounted |-> TRUE, loggedIn |-> FALSE, games |-> <<>>, selectedGame |-> Null,
            view |-> AppView(FALSE), effect |-> "pending"]
  /\ Login = [mounted |-> TRUE, errorMsg |-> Str(""), submissions |-> <<>>]
  /\ GameSelector = NotLoaded
  /\ AnalyticsDashboard = NotLoaded
  /\ EnhancedChart = NotLoaded
  /\ fetches = <<>>

SpecLogin == InitLogin /\ [][NextLogin]_vars

\* The dashboard: App after the login, GameSelector and the requests.
NextDashboard ==
  \/ AppEffect
  \/ \E i \in 1..(MaxSelect + 1) : SetGames(i)
  \/ \E i \in 1..(MaxSelect + 1) : SetSelectedGame(i)
  \/ \E i \in 1..(MaxSelect + 1) : FetchFailed(i)
  \/ \E value \in {"", "A", "C"} : setHomeTeam(value)
  \/ \E value \in {"", "B", "D"} : setAwayTeam(value)
  \/ \E value \in {"", "Oval", "Lords"} : setVenue(value)
  \/ \E value \in {"", "d1", "d2", "d3"} : setSelectedDate(value)
  \/ GameSelectorEffect
  \/ handleSearch

\* The first login has just succeeded: App has rendered the dashboard, the
\* effects of App and of GameSelector have not run yet.
InitDashboard ==
  /\ games = GameTable
  /\ sims = {}
  /\ seed42 = 0
  /\ last = Idle
  /\ workers = {}
  /\ call = [t \in Threads |-> NoCall]
  /\ frame = [f \in Threads |-> NoLocals]
  /\ kmeans = NoEstimator
  /\ App = [mounted |-> TRUE, loggedIn |-> TRUE, games |-> <<>>, selectedGame |-> Null,
            view |-> AppView(TRUE), effect |-> "pending"]
  /\ Login = [mounted |-> FALSE, errorMsg |-> Str(""),
              submissions |-> << [pc |-> "done",
                                  response |-> [ok |-> TRUE, body |-> [json |-> "null"]],
                                  set |-> <<Str("")>>, onLoginSuccess |-> 1] >>]
  /\ GameSelector = GameSelectorMounted
  /\ AnalyticsDashboard = NotLoaded
  /\ EnhancedChart = NotLoaded
  /\ fetches = <<>>

SpecDashboard == InitDashboard /\ [][NextDashboard]_vars

\* ---- the React frontend: AnalyticsDashboard ------------------------------------
\* The mappings cluster_simulation_runs can return: simulation_run -> label.
ClusterMappings == UNION { [run_numbers -> 0..MaxK] : run_numbers \in SUBSET Runs }

\* The mapping as the frontend receives it: JSON object keys are strings.
JsonObject(dict) ==
  [ key \in { ToString(run) : run \in DOMAIN dict } |->
      dict[CHOOSE run \in DOMAIN dict : ToString(run) = key] ]

\* Object.entries(obj): the [key, value] pairs; keys that are integers come
\* in ascending numeric order.
ObjectEntries(obj) ==
  LET numbers == Sorted({ n \in Runs : ToString(n) \in DOMAIN obj })
  IN [ i \in DOMAIN numbers |-> <<ToString(numbers[i]), obj[ToString(numbers[i])]>> ]

\* Number(cluster) of a number, and the property key a number becomes.
Number(value) == value

PropertyKey(number) == ToString(number)

\* (mutant) the test for an existing group is missing: every entry starts
\* its group anew
RECURSIVE ForEachEntryOverwriting(_, _)
ForEachEntryOverwriting(entries, groups) ==
  IF entries = <<>> THEN groups
  ELSE LET run == Head(entries)[1]
           cat == PropertyKey(Number(Head(entries)[2]))
       IN ForEachEntryOverwriting(Tail(entries),
            [ key \in DOMAIN groups \cup {cat} |-> IF key = cat THEN <<run>> ELSE groups[key] ])

\* forEach(([run, cluster]) => { const cat = Number(cluster);
\*   if (!groups[cat]) groups[cat] = []; groups[cat].push(run); })
RECURSIVE ForEachEntry(_, _)
ForEachEntry(entries, groups) ==
  IF entries = <<>> THEN groups
  ELSE LET run == Head(entries)[1]
           cat == PropertyKey(Number(Head(entries)[2]))
       IN ForEachEntry(Tail(entries),
            [ key \in DOMAIN groups \cup {cat} |->
                IF key = cat
                THEN (IF cat \in DOMAIN groups THEN Append(groups[cat], run) ELSE <<run>>)
                ELSE groups[key] ])

\* (mutant of groupByCategory)
groupByCategoryOverwriting(simClusters) ==
  ForEachEntryOverwriting(ObjectEntries(simClusters), <<>>)

\* groupByCategory: const groups = {}; ...; return groups
groupByCategory(simClusters) == ForEachEntry(ObjectEntries(simClusters), <<>>)

\* The component renders: groupedData = groupByCategory().
RenderAnalytics(state) == [state EXCEPT !.groupedData = groupByCategory(state.simClusters)]

\* The gameId prop changes; the effect of the new render is scheduled.
AnalyticsGameId(gameId) ==
  /\ AnalyticsDashboard.mounted /\ AnalyticsDashboard.effect = "ran"
  /\ gameId # AnalyticsDashboard.gameId
  /\ AnalyticsDashboard' =
       RenderAnalytics([AnalyticsDashboard EXCEPT !.gameId = gameId, !.effect = "pending"])
  /\ UNCHANGED <<backend, App, Login, GameSelector, EnhancedChart, fetches>>

\* useEffect(() => { if (!gameId) return; fetch(...simulations)... }, [gameId])
AnalyticsEffect ==
  /\ AnalyticsDashboard.mounted /\ AnalyticsDashboard.effect = "pending"
  /\ AnalyticsDashboard' =
       [AnalyticsDashboard EXCEPT
          !.effect = "ran",
          !.pending = IF AnalyticsDashboard.gameId # 0
                      THEN @ \cup {AnalyticsDashboard.gameId} ELSE @]
  /\ UNCHANGED <<backend, App, Login, GameSelector, EnhancedChart, fetches>>

\* .then(data => { setSimClusters(data); setLoading(false); }) and the render
SetSimClusters(gameId) ==
  /\ AnalyticsDashboard.mounted /\ gameId \in AnalyticsDashboard.pending
  /\ \E dict \in ClusterMappings :
       AnalyticsDashboard' =
         RenderAnalytics([AnalyticsDashboard EXCEPT !.simClusters = JsonObject(dict),
                                                    !.loading = FALSE,
                                                    !.pending = @ \ {gameId}])
  /\ UNCHANGED <<backend, App, Login, GameSelector, EnhancedChart, fetches>>

\* !res.ok or a failed request: .catch sets error and ends the loading
SimClustersFailed(gameId) ==
  /\ AnalyticsDashboard.mounted /\ gameId \in AnalyticsDashboard.pending
  /\ AnalyticsDashboard' =
       RenderAnalytics([AnalyticsDashboard EXCEPT !.error = Str("Failed to fetch"),
                                                  !.loading = FALSE,
                                                  !.pending = @ \ {gameId}])
  /\ UNCHANGED <<backend, App, Login, GameSelector, EnhancedChart, fetches>>

NextAnalytics ==
  \/ \E gameId \in GameIds \cup {0} : AnalyticsGameId(gameId)
  \/ AnalyticsEffect
  \/ \E gameId \in GameIds : SetSimClusters(gameId)
  \/ \E gameId \in GameIds : SimClustersFailed(gameId)

\* AnalyticsDashboard has rendered for the first time, for some game.
InitAnalytics ==
  /\ games = GameTable
  /\ sims = {}
  /\ seed42 = 0
  /\ last = Idle
  /\ workers = {}
  /\ call = [t \in Threads |-> NoCall]
  /\ frame = [f \in Threads |-> NoLocals]
  /\ kmeans = NoEstimator
  /\ App = NotLoaded
  /\ Login = NotLoaded
  /\ GameSelector = NotLoaded
  /\ \E gameId \in GameIds \cup {0} :
       AnalyticsDashboard =
         RenderAnalytics([mounted |-> TRUE, gameId |-> gameId, simClusters |-> <<>>,
                          loading |-> TRUE, error |-> Null, effect |-> "pending",
                          pending |-> {}, groupedData |-> <<>>])
  /\ EnhancedChart = NotLoaded
  /\ fetches = <<>>

SpecAnalytics == InitAnalytics /\ [][NextAnalytics]_vars

\* ---- the React frontend: EnhancedChart -----------------------------------------
\* binDataTwoSets(game.home_scores, game.away_scores, 10)
numBins == 10

\* JavaScript numbers: a finite number (kept exactly, an integer or a
\* rational <<numerator, denominator>>) or NaN.
Num(v) == [type |-> "number", v |-> v]

NaN == [type |-> "NaN"]

\* The score lists a game can arrive with.
ScoreLists == UNION { [1..n -> 0..MaxBinScore] : n \in 0..MaxData }

\* let index = Math.floor((d - min) / binWidth); if (index === bins) index--;
\* with binWidth = (max - min) / bins.  A binWidth of 0 makes the quotient
\* 0 / 0, which is NaN, and NaN === bins is false.
BinIndex(d, min, max, bins) ==
  IF max = min THEN NaN
  ELSE LET index == (bins * (d - min)) \div (max - min)
       IN IF index = bins THEN Num(index - 1) ELSE Num(index)

\* counts[index]++ : an index that is no element index leaves the elements
\* of the array as they are.
RECURSIVE Counts(_, _, _, _, _)
Counts(data, min, max, bins, counts) ==
  IF data = <<>> THEN counts
  ELSE LET index == BinIndex(Head(data), min, max, bins)
       IN Counts(Tail(data), min, max, bins,
                 IF index.type = "number" /\ index.v \in DOMAIN counts
                 THEN [counts EXCEPT ![index.v] = @ + 1]
                 ELSE counts)

\* count / total
Proportion(count, total) == IF total = 0 THEN NaN ELSE Num(Rat(count, total))

\* binDataTwoSets(data1, data2, bins): percents1 and percents2, arrays
\* indexed from 0.  Of an empty combined list no minimum is used.
binDataTwoSets(data1, data2, bins) ==
  LET combined == data1 \o data2
      values == { combined[i] : i \in DOMAIN combined }
      min == IF values = {} THEN 0 ELSE SetMin(values)
      max == IF values = {} THEN 0 ELSE SetMax(values)
      counts1 == Counts(data1, min, max, bins, [b \in 0..(bins - 1) |-> 0])
      counts2 == Counts(data2, min, max, bins, [b \in 0..(bins - 1) |-> 0])
  IN [ min |-> min, max |-> max,
       percents1 |-> [b \in 0..(bins - 1) |-> Proportion(counts1[b], Len(data1))],
       percents2 |-> [b \in 0..(bins - 1) |-> Proportion(counts2[b], Len(data2))] ]

\* App renders <EnhancedChart game={selectedGame} /> with a game; the body
\* of the component has not run yet.
EnhancedChartGame ==
  /\ EnhancedChart.mounted /\ EnhancedChart.histogram # Null
  /\ \E home_scores \in ScoreLists, away_scores \in ScoreLists :
       /\ EnhancedChart.game # [home_scores |-> home_scores, away_scores |-> away_scores]
       /\ EnhancedChart' =
            [ mounted |-> TRUE, histogram |-> Null,
              game |-> [home_scores |-> home_scores, away_scores |-> away_scores] ]
  /\ UNCHANGED <<backend, App, Login, GameSelector, AnalyticsDashboard, fetches>>

\* The body of EnhancedChart runs: the histogram data are computed from the
\* scores of the game.
EnhancedChartRender ==
  /\ EnhancedChart.mounted /\ EnhancedChart.histogram = Null
  /\ EnhancedChart' =
       [EnhancedChart EXCEPT
          !.histogram = binDataTwoSets(EnhancedChart.game.home_scores,
                                       EnhancedChart.game.away_scores, numBins)]
  /\ UNCHANGED <<backend, App, Login, GameSelector, AnalyticsDashboard, fetches>>

NextChart ==
  \/ EnhancedChartGame
  \/ EnhancedChartRender

\* App is about to render EnhancedChart for the game selected first.
InitChart ==
  /\ games = GameTable
  /\ sims = {}
  /\ seed42 = 0
  /\ last = Idle
  /\ workers = {}
  /\ call = [t \in Threads |-> NoCall]
  /\ frame = [f \in Threads |-> NoLocals]
  /\ kmeans = NoEstimator
  /\ App = NotLoaded
  /\ Login = NotLoaded
  /\ GameSelector = NotLoaded
  /\ AnalyticsDashboard = NotLoaded
  /\ \E home_scores \in ScoreLists, away_scores \in ScoreLists :
       EnhancedChart =
         [ mounted |-> TRUE, histogram |-> Null,
           game |-> [home_scores |-> home_scores, away_scores |-> away_scores] ]
  /\ fetches = <<>>

SpecChart == InitChart /\ [][NextChart]_vars

\* ---- the statement-level claims ---------------------------------------------
\* The feature matrix of thread t has been standardized and is about to be
\* handed to the estimator.
Standardized(t) == call[t].op = "cluster_simulation_runs" /\ call[t].pc = "labels"

ConstantColumn(features, c) ==
  \A i, j \in DOMAIN features : features[i][c] = features[j][c]

\* C11: a feature column whose values are identical over the common runs is
\* standardized to all zeros, and every value handed to the clustering step
\* is defined (no quotient with a zero divisor).
C11_ConstantColumnToZeros ==
  \A t \in Threads :
    Standardized(t) =>
      \A c \in 1..2, i \in DOMAIN Locals(t).features_scaled :
        /\ Locals(t).features_scaled[i][c].var > 0
        /\ ConstantColumn(Locals(t).features, c) =>
             Locals(t).features_scaled[i][c].num = 0

\* Three common runs with the same margin and different average scores have
\* been standardized.
C11_Witness ==
  \E t \in Threads :
    /\ Standardized(t)
    /\ Len(Locals(t).features) = 3
    /\ ConstantColumn(Locals(t).features, 2)
    /\ ~ConstantColumn(Locals(t).features, 1)

\* Twice the feature value x (a multiple of 1/2), as an integer.
Twice(x) == (2 * x[1]) \div x[2]

\* C12: after standardization every non-constant column holds
\* (value - column mean) / column population std: its values sum to 0 and
\* their squares sum to the number of common runs.
\* With e[i] = n * 2x[i] - sum(2x) = 2n * (x[i] - mean) and z[i] = num[i] / sqrt(V):
\* z[i] = (x[i] - mean) / std  iff  num[i] and e[i] have the same sign and
\* num[i]^2 * sum(e^2) = V * n * e[i]^2.
C12_MeanZeroStdOne ==
  \A t \in Threads :
    Standardized(t) =>
      \A c \in 1..2 :
        ~ConstantColumn(Locals(t).features, c) =>
          LET x == Locals(t).features
              z == Locals(t).features_scaled
              n == Len(x)
              V == z[1][c].var
              sum2x == SumSeq([ i \in DOMAIN x |-> Twice(x[i][c]) ])
              e == [ i \in DOMAIN x |-> n * Twice(x[i][c]) - sum2x ]
              sume2 == SumSeq([ i \in DOMAIN x |-> e[i] * e[i] ])
          IN /\ Len(z) = n /\ V > 0
             /\ \A i \in DOMAIN z : z[i][c].var = V
             /\ \A i \in DOMAIN z :
                  /\ (z[i][c].num > 0) = (e[i] > 0)
                  /\ (z[i][c].num < 0) = (e[i] < 0)
                  /\ z[i][c].num * z[i][c].num * sume2 = V * n * e[i] * e[i]
             /\ SumSeq([ i \in DOMAIN z |-> z[i][c].num ]) = 0
             /\ SumSeq([ i \in DOMAIN z |-> z[i][c].num * z[i][c].num ]) = n * V

\* Three common runs whose two columns both vary, the first with values at
\* unequal distances from its mean, have been standardized.
C12_Witness ==
  \E t \in Threads :
    /\ Standardized(t)
    /\ Len(Locals(t).features) = 3
    /\ ~ConstantColumn(Locals(t).features, 1)
    /\ ~ConstantColumn(Locals(t).features, 2)
    /\ \E i, j \in 1..3 :
         Abs(Locals(t).features_scaled[i][1].num) # Abs(Locals(t).features_scaled[j][1].num)

C14_LabelsBelowK ==
  (Clustered /\ last.ret.tag = "dict") =>
    /\ \A r \in DOMAIN last.ret.v : last.ret.v[r] \in 0..(last.k - 1)
    /\ Cardinality({ last.ret.v[r] : r \in DOMAIN last.ret.v }) <= last.k

\* Three common runs were clustered with k = 2 and both labels are in use.
C14_Witness ==
  /\ Clustered /\ last.ret.tag = "dict" /\ last.k = 2
  /\ Cardinality(DOMAIN last.ret.v) = 3
  /\ { last.ret.v[r] : r \in DOMAIN last.ret.v } = {0, 1}

\* C15: when a team has no rows for the game, cluster_simulation_runs
\* returns the empty mapping as a normal result, whatever k is, and the
\* statements that build, scale and cluster the feature matrix are not
\* reached with an empty common_runs.
C15_EmptySideEmptyMapping ==
  \A t \in Threads :
    call[t].op = "cluster_simulation_runs" =>
      /\ call[t].pc \in {"features", "features_scaled", "labels", "return"} =>
           Locals(t).common_runs # <<>>
      /\ (/\ call[t].pc = "done"
          /\ \/ HomeRows(sims, call[t].game) = {}
             \/ AwayRows(sims, call[t].game) = {}) =>
           call[t].ret = Return("dict", <<>>)

\* The call returned for a game whose home team has no rows and whose away
\* team has three.
C15_Witness ==
  \E t \in Threads :
    /\ call[t].op = "cluster_simulation_runs" /\ call[t].pc = "done"
    /\ HomeRows(sims, call[t].game) = {}
    /\ Cardinality(AwayRows(sims, call[t].game)) = 3
    /\ call[t].ret = Return("dict", <<>>)

\* C16: a call of cluster_simulation_runs with k < 1 ends with an error for
\* every table content, games without a common run included; it never
\* returns a mapping.
C16_NonPositiveKFails ==
  (Clustered /\ last.k < 1) => last.ret.tag = "raise"

\* C17: with at least one common run and k greater than the number of common
\* runs, the call ends with the error the estimator raises: k is not clamped
\* and no mapping, partial or not, is returned.
C17_TooLargeKRaises ==
  (/\ Clustered
   /\ CommonRunSet(sims, last.game) # {}
   /\ last.k > Cardinality(CommonRunSet(sims, last.game))) =>
    last.ret = ValueError

\* k = 2 was asked for a game with one common run and rows of other runs on
\* both sides.
C17_Witness ==
  /\ Clustered /\ last.k = 2 /\ last.ret = ValueError
  /\ Cardinality(CommonRunSet(sims, last.game)) = 1
  /\ Cardinality(HomeRows(sims, last.game)) >= 2
  /\ Cardinality(AwayRows(sims, last.game)) >= 2

\* C18: no call of either function changes the Simulation table or the Game
\* table, on the success path or on the insufficient-data path: every step
\* leaves both as they were.
C18_StoreUnchanged == [][sims' = sims /\ games' = games]_vars

\* compute_game_features took the insufficient-data path on a game with rows
\* on both sides, after which the rows are still there.
C18_Witness ==
  /\ Featured /\ last.ret = None
  /\ HomeRows(sims, last.game) # {} /\ AwayRows(sims, last.game) # {}

Teams == {"A", "B", "C"}

\* The rows game g's calls are about: its own, of its two teams.
OwnRows(store, g) == HomeRows(store, g) \cup AwayRows(store, g)

\* The tables that differ from store in one row that is not a row of game g
\* and its two teams: the row removed, its score changed, or such a row
\* added (of another game, or of a third team in game g).
ForeignVariants(store, g) ==
  LET foreign == store \ OwnRows(store, g)
      addable == { row \in { Row(g2, t, r, s) : g2 \in GameIds, t \in Teams, r \in Runs, s \in Scores } :
                     /\ ~(row.game_id = g /\ row.team \in {games[g].home_team, games[g].away_team})
                     /\ \A old \in store :
                          <<old.game_id, old.team, old.simulation_run>>
                            # <<row.game_id, row.team, row.simulation_run>> }
  IN { store \ {row} : row \in foreign }
       \cup { (store \ {row}) \cup {[row EXCEPT !.results = s]} : row \in foreign, s \in Scores }
       \cup { store \cup {row} : row \in addable }

\* C19: the result of either function for a game depends only on the rows of
\* that game and its home and away team: on a table that differs in a row of
\* another game, or of a third team in the same game, compute_game_features
\* returns the same value and cluster_simulation_runs the same mapping.
C19_OnlyOwnRowsMatter ==
  /\ Featured =>
       \A other \in ForeignVariants(sims, last.game) :
         FeatureOutcomes(other, last.game) = {last.ret}
  /\ Clustered =>
       \A other \in ForeignVariants(sims, last.game) :
         ClusterOutcomes(other, last.game, last.k) = {last.ret}

\* A vector was returned for game 1 while the table holds rows of game 2 for
\* a team of game 1 and a row of a third team in game 1.
C19_Witness ==
  /\ Featured /\ last.ret.tag = "list" /\ last.game = 1
  /\ OtherGameRows \subseteq sims /\ ThirdTeamRows \subseteq sims

\* What the call c returns when it runs alone on the table.
AloneOutcomes(c) ==
  IF c.op = "compute_game_features" THEN FeatureOutcomes(sims, c.game)
  ELSE ClusterOutcomes(sims, c.game, c.k)

\* C20: calls for different games run concurrently without influencing each
\* other: under every interleaving of their statements, a call that has
\* returned has returned what it returns when it runs alone, and two calls
\* in flight work on different frames.
C20_InterleavingFree ==
  /\ \A t \in Threads :
       call[t].pc = "done" => call[t].ret \in AloneOutcomes(call[t])
  /\ \A t, u \in Threads :
       (t # u /\ call[t].pc # "idle" /\ call[u].pc # "idle") =>
         FrameOf(t) # FrameOf(u)

\* cluster_simulation_runs has returned a mapping with two labels for one
\* game while a call for the other game, begun before it returned, stands
\* between its clustering and its return statement.
C20_Witness ==
  \E t, u \in Threads :
    /\ call[t].pc = "done" /\ call[t].op = "cluster_simulation_runs"
    /\ call[t].ret.tag = "dict"
    /\ \E r1, r2 \in DOMAIN call[t].ret.v : call[t].ret.v[r1] # call[t].ret.v[r2]
    /\ call[u].pc = "return" /\ Locals(u).labels # <<>>
    /\ Locals(t).home_sims # <<>> /\ Locals(u).home_sims # Locals(t).home_sims

\* C21: whenever compute_game_features stands at the computation of the
\* averages and of win_percentage, common_runs is not empty: the branch
\* 'else 0' of the win percentage is not taken and len(common_runs), the
\* divisor, is not 0.
C21_FallbackNeverTaken ==
  \A t \in Threads :
    (call[t].op = "compute_game_features" /\ call[t].pc = "averages") =>
      /\ Locals(t).common_runs # <<>>
      /\ Len(Locals(t).common_runs) > 0

\* The computation is reached with a single common run, next to rows of
\* other runs on both sides.
C21_Witness ==
  \E t \in Threads :
    /\ call[t].op = "compute_game_features" /\ call[t].pc = "averages"
    /\ Len(Locals(t).common_runs) = 1
    /\ Len(Locals(t).home_sims) = 2 /\ Len(Locals(t).away_sims) = 2

\* The two score dicts of thread t have been built.
ScoresBuilt(t) ==
  /\ call[t].pc \notin {"idle", "home_sims", "away_sims", "check_sims", "scores"}
  /\ Locals(t).home_sims # <<>> /\ Locals(t).away_sims # <<>>

\* The rows of a list that no later row of the same run follows.
LastRows(sim_list) ==
  { sim_list[i] : i \in { j \in DOMAIN sim_list :
      \A l \in DOMAIN sim_list : l > j => sim_list[l].simulation_run # sim_list[j].simulation_run } }

\* The distinct run numbers of a list of rows.
DistinctRuns(sim_list) == { sim_list[i].simulation_run : i \in DOMAIN sim_list }

\* What the call of thread t returns on the table that holds, of the rows
\* its queries returned, only the last row of every run.
LastRowOutcomes(t) ==
  LET store == LastRows(Locals(t).home_sims) \cup LastRows(Locals(t).away_sims)
  IN IF call[t].op = "compute_game_features"
     THEN FeatureOutcomes(store, call[t].game)
     ELSE ClusterOutcomes(store, call[t].game, call[t].k)

\* C23: when a team has several rows of the same run, the score dict keeps,
\* for every run, the score of the row the query returned last; the common
\* runs are no more than the distinct run numbers of either team; and the
\* result of the call is the result on the table that holds only those last
\* rows, whatever the order of the rows otherwise.
C23_LastRecordWins ==
  \A t \in Threads :
    ScoresBuilt(t) =>
      /\ \A row \in LastRows(Locals(t).home_sims) :
            Locals(t).home_scores[row.simulation_run] = row.results
      /\ \A row \in LastRows(Locals(t).away_sims) :
            Locals(t).away_scores[row.simulation_run] = row.results
      /\ DOMAIN Locals(t).home_scores = DistinctRuns(Locals(t).home_sims)
      /\ DOMAIN Locals(t).away_scores = DistinctRuns(Locals(t).away_sims)
      /\ Len(Locals(t).common_runs) <= Cardinality(DistinctRuns(Locals(t).home_sims))
      /\ Len(Locals(t).common_runs) <= Cardinality(DistinctRuns(Locals(t).away_sims))
      /\ call[t].pc = "done" => LastRowOutcomes(t) = {call[t].ret}

\* compute_game_features has returned its list on a table where the home
\* team has two rows of run 1 with different scores, the row with the lower
\* score returned last, and fewer common runs than home rows.
C23_Witness ==
  \E t \in Threads :
    /\ ScoresBuilt(t) /\ call[t].pc = "done"
    /\ call[t].op = "compute_game_features" /\ call[t].ret.tag = "list"
    /\ \E i, j \in DOMAIN Locals(t).home_sims :
         /\ i < j
         /\ Locals(t).home_sims[i].simulation_run = 1
         /\ Locals(t).home_sims[j].simulation_run = 1
         /\ Locals(t).home_sims[i].results > Locals(t).home_sims[j].results
         /\ Locals(t).home_scores[1] = Locals(t).home_sims[j].results
    /\ Len(Locals(t).common_runs) < Len(Locals(t).home_sims)

\* The loop has stopped for one of its two reasons, with a label for every
\* point, the labels fit_predict returns.
LloydStopped ==
  /\ \/ Assign(kmeans.Z, kmeans.centres) = kmeans.labels
     \/ kmeans.n_iter >= max_iter
  /\ DOMAIN kmeans.labels = DOMAIN kmeans.Z
  /\ \A i \in DOMAIN kmeans.labels : kmeans.labels[i] \in 1..kmeans.n_clusters
  /\ FitPredict(kmeans.Z, kmeans.n_clusters, kmeans.seed)
       = Return("labels", [ i \in DOMAIN kmeans.labels |-> kmeans.labels[i] - 1 ])

\* C22: the clustering loop terminates: for every matrix of standardized
\* points and every k from 1 to the number of points, the loop never runs
\* more than max_iter passes, every run of it comes to its end, and at the
\* end the assignments are stable or the cap is reached and every point has
\* a label.
C22_LloydTerminates ==
  /\ [](kmeans.pc = "iterate" => kmeans.n_iter <= max_iter)
  /\ [](kmeans.pc = "done" => LloydStopped)
  /\ (kmeans.pc = "iterate") ~> (kmeans.pc = "done")

\* The loop has ended after more than two passes, that is after a pass that
\* changed assignments made by the pass before it.
C22_Witness ==
  /\ kmeans.pc = "done"
  /\ kmeans.n_clusters = 2
  /\ kmeans.n_iter > 2
\* ---- the frontend claims ---------------------------------------------------------
\* C24: in every step of the page, the dashboard is on the page only while
\* loggedIn is true; a request for the list of games is sent only when
\* loggedIn is true; loggedIn turns true only in the step in which a login
\* submission that holds a response with an OK status calls onLoginSuccess;
\* and once true, loggedIn stays true.
C24_DashboardOnlyAfterLogin ==
  [][ /\ App'.view = "Dashboard" => App'.loggedIn
      /\ GameSelector'.mounted => App'.loggedIn
      /\ (/\ Len(fetches') > Len(fetches)
          /\ fetches'[Len(fetches')].url = "/games") => App.loggedIn
      /\ (~App.loggedIn /\ App'.loggedIn) =>
            \E s \in DOMAIN Login.submissions :
              /\ Login.submissions[s].pc = "json"
              /\ Login.submissions[s].response.ok
              /\ Login'.submissions[s].onLoginSuccess = Login.submissions[s].onLoginSuccess + 1
      /\ App.loggedIn => App'.loggedIn ]_vars

\* After a submission that was answered with a non-OK status, a second
\* submission has logged the user in: the dashboard is rendered and the
\* list of games has been requested.
C24_Witness ==
  /\ App.loggedIn /\ App.view = "Dashboard" /\ GameSelector.mounted
  /\ \E i \in DOMAIN fetches : fetches[i].url = "/games"
  /\ Len(Login.submissions) = 2
  /\ Login.submissions[1].pc = "done" /\ Login.submissions[1].onLoginSuccess = 0
  /\ Login.submissions[2].pc = "done" /\ Login.submissions[2].onLoginSuccess = 1

\* errorData.detail of a response body, undefined when the body has none.
DetailOf(body) == IF body.json = "object" THEN body.detail ELSE Undefined

GenericError == Str("An error occurred. Please try again.")

\* What a finished submission passed to setErrorMsg last.
LastSet(submission) == submission.set[Len(submission.set)]

RequestFailed(submission) == submission.response = Null

\* C25 as stated: every finished submission has cleared the message first;
\* after a non-OK response it has set the server's detail or 'Login failed'
\* and not called onLoginSuccess; after a failed request it has set the
\* generic message and not called onLoginSuccess; it has called
\* onLoginSuccess at most once and only for an OK response.
C25_NonOkSetsDetailOrLoginFailed ==
  \A s \in DOMAIN Login.submissions :
    LET submission == Login.submissions[s]
    IN submission.pc = "done" =>
         /\ Head(submission.set) = Str("")
         /\ submission.onLoginSuccess <= 1
         /\ IF RequestFailed(submission)
            THEN LastSet(submission) = GenericError /\ submission.onLoginSuccess = 0
            ELSE IF ~submission.response.ok
            THEN /\ LastSet(submission) = Or(DetailOf(submission.response.body), Str("Login failed"))
                 /\ submission.onLoginSuccess = 0
            ELSE TRUE

\* C25 (amended): every finished submission has cleared the message first;
\* after a non-OK response whose body is JSON other than null it has set the
\* server's detail or 'Login failed', after a non-OK response whose body is
\* no JSON or the JSON null it has set the generic message, and in both
\* cases it has not called onLoginSuccess; after a failed request it has set
\* the generic message and not called onLoginSuccess; it has called
\* onLoginSuccess at most once and only for an OK response.
C25_ErrorsSetAndNoSuccess ==
  \A s \in DOMAIN Login.submissions :
    LET submission == Login.submissions[s]
    IN submission.pc = "done" =>
         /\ Head(submission.set) = Str("")
         /\ submission.onLoginSuccess <= 1
         /\ IF RequestFailed(submission)
            THEN LastSet(submission) = GenericError /\ submission.onLoginSuccess = 0
            ELSE IF ~submission.response.ok
            THEN /\ LastSet(submission) =
                      IF submission.response.body.json = "object"
                      THEN Or(submission.response.body.detail, Str("Login failed"))
                      ELSE GenericError
                 /\ submission.onLoginSuccess = 0
            ELSE submission.onLoginSuccess = 1 => submission.response.body.json # "none"

\* One submission was answered with a non-OK status and a body that is no
\* JSON and shows the generic message; the other was answered with a non-OK
\* status and no detail and has set 'Login failed'.
C25_Witness ==
  /\ Len(Login.submissions) = 2
  /\ Login.submissions[1].pc = "done" /\ Login.submissions[2].pc = "done"
  /\ ~RequestFailed(Login.submissions[1]) /\ ~RequestFailed(Login.submissions[2])
  /\ ~Login.submissions[1].response.ok /\ ~Login.submissions[2].response.ok
  /\ Login.submissions[1].response.body.json = "object"
  /\ LastSet(Login.submissions[1]) = Str("Login failed")
  /\ Login.submissions[2].response.body.json = "none"
  /\ Login.errorMsg = GenericError

\* The games of the list that match the three filters and the date.
FullMatches(gameList, homeTeam, awayTeam, venue, selectedDate) ==
  { i \in DOMAIN gameList :
      /\ gameList[i].home_team = homeTeam /\ gameList[i].away_team = awayTeam
      /\ gameList[i].venue = venue /\ gameList[i].date = selectedDate }

\* C26: a click on "Go" calls onSearch only when home team, away team, venue
\* and date are all selected and a game of the list matches all four, and
\* then with the id of such a game, for which App sends the request; in
\* every other case the click shows an alert, calls onSearch not and sends
\* no request.
C26_SearchOnlyOnFullMatch ==
  [][ GameSelector'.clicks # GameSelector.clicks =>
        LET matches == FullMatches(App.games, GameSelector.homeTeam, GameSelector.awayTeam,
                                   GameSelector.venue, GameSelector.selectedDate)
        IN IF /\ GameSelector.homeTeam # "" /\ GameSelector.awayTeam # ""
              /\ GameSelector.venue # "" /\ GameSelector.selectedDate # ""
              /\ matches # {}
           THEN /\ GameSelector'.called = "onSearch"
                /\ \E i \in matches : GameSelector'.arg = App.games[i].id
                /\ Len(fetches') = Len(fetches) + 1
                /\ fetches'[Len(fetches')].url = "/games/id"
                /\ fetches'[Len(fetches')].id = GameSelector'.arg
           ELSE /\ GameSelector'.called \in {"alert: No matching game found",
                                             "alert: Please select all fields"}
                /\ fetches' = fetches ]_vars

\* The last click has called onSearch with the id of the game of team C
\* against B, whose away team and venue were selected while the home team
\* was another.
C26_Witness ==
  /\ GameSelector.mounted /\ GameSelector.called = "onSearch" /\ GameSelector.arg = 3
  /\ GameSelector.homeTeam = "C" /\ GameSelector.selectedDate = "d3"
  /\ \E i \in DOMAIN fetches : fetches[i].url = "/games/id" /\ fetches[i].id = 3

\* C27: whenever the effect of GameSelector has run, dates lists, in the
\* order of the games list, the dates of the games that match the selected
\* home team, away team and venue, and is empty when one of the three is
\* not selected; the selected date is empty or one of dates.
C27_DatesFollowFilters ==
  GameSelectorReady =>
    LET idx == Sorted({ i \in DOMAIN App.games :
                          /\ GameSelector.homeTeam # "" /\ GameSelector.awayTeam # ""
                          /\ GameSelector.venue # ""
                          /\ App.games[i].home_team = GameSelector.homeTeam
                          /\ App.games[i].away_team = GameSelector.awayTeam
                          /\ App.games[i].venue = GameSelector.venue })
    IN /\ Len(GameSelector.dates) = Len(idx)
       /\ \A k \in DOMAIN idx : GameSelector.dates[k] = App.games[idx[k]].date
       /\ \/ GameSelector.selectedDate = ""
          \/ \E k \in DOMAIN GameSelector.dates :
               GameSelector.dates[k] = GameSelector.selectedDate

\* After a search for a game of team A, for which a date was selected, the
\* home team was changed to C with away team and venue left as they were:
\* the effect has run, dates holds the one date of C against B and the
\* selected date is empty again.
C27_Witness ==
  /\ GameSelectorReady
  /\ GameSelector.called = "onSearch" /\ GameSelector.arg \in {1, 2}
  /\ GameSelector.homeTeam = "C" /\ GameSelector.awayTeam = "B"
  /\ GameSelector.dates = <<"d3">> /\ GameSelector.selectedDate = ""

\* C30: once every request for the details of a game has been answered,
\* selectedGame holds the details of the game selected last.
C30_LatestSelectionShown ==
  (/\ Selections # <<>>
   /\ \A i \in DOMAIN Selections : Selections[i].state = "ok")
    => App.selectedGame = GameDetails(Selections[Len(Selections)].id)

\* C28: the groups groupByCategory returns partition the keys of the
\* received mapping by label: every run key stands in the group keyed by its
\* own label, once, and in no other group; no group is empty; the groups
\* together hold the keys of the mapping and nothing else.
C28_GroupsPartitionByLabel ==
  AnalyticsDashboard.mounted =>
    LET simClusters == AnalyticsDashboard.simClusters
        groups == AnalyticsDashboard.groupedData
        Members(label) == { groups[label][i] : i \in DOMAIN groups[label] }
    IN /\ \A run \in DOMAIN simClusters :
            /\ ToString(simClusters[run]) \in DOMAIN groups
            /\ \A label \in DOMAIN groups :
                 Cardinality({ i \in DOMAIN groups[label] : groups[label][i] = run })
                   = IF label = ToString(simClusters[run]) THEN 1 ELSE 0
       /\ \A label \in DOMAIN groups : groups[label] # <<>>
       /\ UNION { Members(label) : label \in DOMAIN groups } = DOMAIN simClusters

\* The mapping of three runs with two labels has been received and grouped:
\* the group of label 1 holds two runs, the group of label 0 one.
C28_Witness ==
  /\ AnalyticsDashboard.mounted /\ ~AnalyticsDashboard.loading
  /\ DOMAIN AnalyticsDashboard.simClusters = {"1", "2", "3"}
  /\ DOMAIN AnalyticsDashboard.groupedData = {"0", "1"}
  /\ Len(AnalyticsDashboard.groupedData["1"]) = 2
  /\ Len(AnalyticsDashboard.groupedData["0"]) = 1

\* The sum of proportions that are numbers, times total.
RECURSIVE SumTimes(_, _, _)
SumTimes(percents, bins, total) ==
  IF bins = 0 THEN 0
  ELSE SumTimes(percents, bins - 1, total)
         + (percents[bins - 1].v[1] * total) \div percents[bins - 1].v[2]

\* The proportions of one data set are numBins numbers between 0 and 1 that
\* sum to 1, every value of the set has a bin index in 0 .. numBins-1 and
\* the maximum of both sets, where the set holds it, has the last index.
BinsCoverSet(data, percents, min, max) ==
  /\ DOMAIN percents = 0..(numBins - 1)
  /\ \A b \in DOMAIN percents :
       /\ percents[b].type = "number"
       /\ 0 <= percents[b].v[1] /\ percents[b].v[1] <= percents[b].v[2]
  /\ SumTimes(percents, numBins, Len(data)) = Len(data)
  /\ \A i \in DOMAIN data :
       LET index == BinIndex(data[i], min, max, numBins)
       IN /\ index.type = "number"
          /\ index.v \in 0..(numBins - 1)
          /\ data[i] = max => index.v = numBins - 1

\* C29: for each of the two data sets of the game that is not empty,
\* binDataTwoSets returns numBins proportions between 0 and 1 that sum to 1,
\* every value lies in one bin 0 .. numBins-1 and the maximum in the last;
\* for every input, the one with all values equal included.
C29_ProportionsSumToOne ==
  (EnhancedChart.mounted /\ EnhancedChart.histogram # Null) =>
    LET game == EnhancedChart.game
        histogram == EnhancedChart.histogram
    IN /\ game.home_scores # <<>> =>
            BinsCoverSet(game.home_scores, histogram.percents1, histogram.min, histogram.max)
       /\ game.away_scores # <<>> =>
            BinsCoverSet(game.away_scores, histogram.percents2, histogram.min, histogram.max)

====
